---- MODULE Spec2Model ----
(***************************************************************************)
(* LeetFetch: the sync/dedup coordinator (ProblemLogWriter, BaseManager)   *)
(* and the plugin handlers that drive it (LeetFetchPlugin).                *)
(*                                                                         *)
(* The vault, the metadata cache and the plugin data file (data.json) are  *)
(* the host's; the model keeps of them what the plugin reads and writes.   *)
(* Every handler is cut at the awaits where the host's event loop can run  *)
(* another handler: between two note creations of one run, between the     *)
(* un-awaited saveProcessedProblems() call and its write to the data file, *)
(* and between the writer's constructor and its un-awaited                 *)
(* loadProcessedProblems() resolving.                                      *)
(***************************************************************************)
EXTENDS Integers, Sequences, FiniteSets, TLC

\* ------------------------------------------------------------------ bounds

\* Number of distinct problems the remote service can return.
NumProblems == 2

\* saveProcessedProblems() invocations that may be in flight at once.
MaxPending == 1

\* The "Max retries" slider goes from 1 to 10; the model stops at
MaxMaxRetries == 3

\* The CSRF token of the settings: none, blank, or a token.
UserTokens == {"", " ", "user-token"}

\* this.csrfToken = null, and a fetchCSRFToken that found nothing.
Null == "<null>"

\* What fetchCSRFToken can find on the public page.
FetchedTokens == {Null, "page-token"}

\* Math.random() * 1000 at the two ends of its range.
Jitters == {0, 999}

\* Date.now() when the client is constructed.
StartTime == 1000

\* Operations of the client that can be in flight at the same time.
Ops == {1, 2}

\* The step of the clock where requests are timed against each other, and
\* how long after StartTime it is stepped.
TickStep == 50

TickHorizon == 150

\* The longest list of submissions the remote endpoint returns.
MaxSubmissions == 2

\* The page requests of one fetchAllSubmissions that are counted.
MaxPages == 3

\* const maxProblems of fetchAllSubmissions, 3500 in the source, scaled to
\* the problems of the model.
maxProblems == 1

\* The submissions the paginated loop is followed for.
MaxOffset == 4

\* The longest array of problems batchUpdateProblems is called with.
MaxUpdates == 4

\* const BATCH_SIZE of batchUpdateProblems, 10 in the source, scaled to the
\* arrays of the model.
BATCH_SIZE == 2

\* The most interval timers one session sets.
MaxTimerId == 3

\* The most saveSettings calls awaiting saveData at one time.
MaxSaving == 2

\* const BATCH_SIZE of batchProcessFiles, 20 in the source, scaled to the
\* paths of the model.
FILES_BATCH_SIZE == 1

\* The markdown files the notes folder can hold.
NumFiles == 2

\* const CHUNK_SIZE of validateBaseIntegrity, 50 in the source, scaled to the
\* files of the model.
CHUNK_SIZE == 1

\* ------------------------------------------------------------ problem records

Problems == 1..NumProblems

\* LeetCodeProblem.id: parseInt(questionId), a positive number.
Id(p) == p

SlugNames == <<"two-sum", "three-sum", "four-sum", "five-sum">>

\* LeetCodeProblem.titleSlug.
Slug(p) == SlugNames[p]

Slugs == {Slug(p) : p \in Problems}

\* A fetched batch: an ordered sequence of problem records, no slug twice
\* (both fetch operations skip a slug they have already collected).
Batches ==
    {b \in UNION {[1..n -> Problems] : n \in 0..NumProblems} :
        \A i, j \in DOMAIN b : i # j => b[i] # b[j]}

Range(s) == {s[i] : i \in DOMAIN s}

\* The subsequence of s whose elements satisfy Keep, in the order of s
\* (Array.prototype.filter).
RECURSIVE FilterSeq(_, _)
FilterSeq(s, keep) ==
    IF s = <<>> THEN <<>>
    ELSE IF Head(s) \in keep THEN <<Head(s)>> \o FilterSeq(Tail(s), keep)
    ELSE FilterSeq(Tail(s), keep)

\* ------------------------------------------------------------------- state

VARIABLES
    settings,           \* LeetFetchPlugin.settings, shared by reference with the writer
    data,               \* the processedProblems key of the plugin data file
    processedProblems,  \* ProblemLogWriter.processedProblems (in memory)
    loadPending,        \* the constructor's loadProcessedProblems() has not resolved
    savePending,        \* saveProcessedProblems() calls that have not written yet
    folderExists,       \* settings.individualNotesPath is a folder of the vault
    notes,              \* per problem, the documents created for it (the vault
                        \* is taken to accept every create it does not fail)
    topicLinks,         \* backlink lines of the topic pages
    pc,                 \* position of the sync run in flight
    batch,              \* argument of the latest updateProblemBase call
    newProblems,        \* its filter result
    idx,                \* loop index of createIndividualNotes
    result,             \* how the latest updateProblemBase call ended
    attempted,          \* what the run has started for its records: <<record, step>>
    sinceClear,         \* history: clearCache has run and no reconcile has marked since
    processedQuestionIds, \* LeetCodeAPI.processedQuestionIds
    fetch,              \* how the latest fetch of a sync handler ended
    recent,             \* the latest call of fetchRecentSubmissions
    all,                \* the latest paginated call of fetchAllSubmissions
    apiSettings,        \* LeetCodeAPI.settings
    csrfToken,          \* LeetCodeAPI.csrfToken
    csrfTokenExpiry,    \* LeetCodeAPI.csrfTokenExpiry
    lastRequestTime,    \* LeetCodeAPI.lastRequestTime
    now,                \* Date.now()
    ops,                \* the calls of makeGraphQLRequest, one per operation
    requests,           \* history: when the two latest requests went out
    health,             \* the latest call of LeetCodeAPI.healthCheck
    docs,               \* per file of the notes folder, what the metadata cache holds
    integrity,          \* the latest call of BaseManager.validateBaseIntegrity
    runs,               \* the sync runs that overlap in time, one per trigger
    cursor,             \* the page requests of the paginated fetchAllSubmissions
    updates,            \* the latest call of BaseManager.batchUpdateProblems
    timers,             \* the plugin instance and the interval timers of the window
    queue               \* BaseManager.updateQueue, isUpdating and the files in process

vaultVars == <<folderExists, notes, topicLinks>>
runVars == <<pc, batch, newProblems, idx, result, attempted>>

\* The state of the plugin and its writer, and the state of the API client.
pluginVars == <<settings, data, processedProblems, loadPending, savePending,
                vaultVars, runVars, sinceClear>>
clientVars == <<apiSettings, csrfToken, csrfTokenExpiry, lastRequestTime, now, ops,
                requests>>
batchVars == <<recent, all>>
apiVars == <<processedQuestionIds, fetch, batchVars, clientVars>>

\* The state of the operations that run beside the syncs.
sideVars == <<health, docs, integrity, runs, cursor, updates, timers,
             queue>>

vars == <<pluginVars, apiVars, sideVars>>

\* The processedProblems key of an object parsed from the data file:
\* hasProcessed tells whether the key is present.
NoProcessedKey == [hasProcessed |-> FALSE, processedProblems |-> {}]

ProcessedKey(set) == [hasProcessed |-> TRUE, processedProblems |-> set]

\* DEFAULT_SETTINGS, restricted to the fields the writer reads, and next to
\* them the processedProblems key that loadSettings copies out of the data
\* file with every other key of it.
DEFAULT_SETTINGS ==
    [useBasesFormat |-> TRUE,
     createIndividualNotes |-> TRUE,
     topicBacklinks |-> TRUE,       \* topicTagsEnabled && topicBacklinkEnabled
     fetchAllOnEmpty |-> TRUE,
     processed |-> NoProcessedKey]

\* The ProcessedIdentitySet as persisted: data?.processedProblems.
PersistedSet(d) == IF d.hasProcessed THEN d.processedProblems ELSE {}

\* How the latest updateProblemBase call ended: kind is "none" (no call, or
\* the call is running, or the in-memory set was replaced since), "empty"
\* (nothing new, [] returned), "disabled" (Bases format off, [] returned),
\* "returned" (value returned after materialization), "raised" (the call
\* rejected) or "interrupted" (the application stopped after the run had
\* created a document and before it marked). prior: how the call before it
\* had ended when that call was given the same batch and was interrupted, or
\* returned that whole batch; "none" otherwise.
NoResult == [kind |-> "none", value |-> <<>>, prior |-> "none"]

\* The latest fetch of a sync handler: kind is "none" (no fetch yet),
\* "returned" or "raised"; allFailed: it made detail-fetches and each failed.
NoFetch == [kind |-> "none", allFailed |-> FALSE]

\* The latest call of fetchRecentSubmissions: kind is "none" (no call yet),
\* "returned" or "raised"; its filterProcessed argument, processedQuestionIds
\* when it started (seenAtStart), the remote list it was answered, the
\* positions of the list it called fetchProblemDetails for (details) and
\* those where that raised (failedProblems), and the array it returned.
NoRecent ==
    [kind |-> "none", filterProcessed |-> FALSE, seenAtStart |-> {}, list |-> <<>>,
     details |-> {}, failedProblems |-> {}, problems |-> <<>>]

\* const maxConsecutiveFailures.
maxConsecutiveFailures == 3

\* The locals of the paginated fetchAllSubmissions before its loop (pc is
\* "none" before any call, then "running", "returned" or "raised"; result is
\* the array returned, error the error raised), and what the call has done:
\* the page requests it has issued (pageRequests, counted up to MaxPages),
\* how many of them failed (pageFailures, counted up to
\* maxConsecutiveFailures), how many failed in a row up to now (streak) and with which error (lastError), whether a page came
\* without a submissions list (noSubmissions), the submissions the pages
\* have delivered (served), those it called fetchProblemDetails for
\* (detailed), and the number of the request that was first answered a page
\* with hasNext = false (lastPage, 0 when there was none).
NoAll ==
    [pc |-> "none", problems |-> <<>>, processedTitleSlugs |-> {},
     failedProblems |-> {}, hasNext |-> TRUE, consecutiveFailures |-> 0,
     totalProcessed |-> 0, result |-> <<>>,
     error |-> [message |-> "none", type |-> "none", retryable |-> FALSE,
                last |-> "none"],
     pageRequests |-> 0, pageFailures |-> 0, streak |-> 0,
     lastError |-> [message |-> "none", type |-> "none", retryable |-> FALSE,
                    last |-> "none"],
     noSubmissions |-> FALSE, served |-> {}, detailed |-> {}, lastPage |-> 0]

\* The latest call of healthCheck: settings.username of the client (Null
\* when the settings hold none), where the call is (pc: "idle", "waiting"
\* for makeGraphQLRequest, "returned" or "raised"), the username it read
\* (calledWith), whether it called makeGraphQLRequest (sent), what that
\* call came back with (outcome), and the value returned or the error raised.
NoHealth ==
    [username |-> "", pc |-> "idle", calledWith |-> "", sent |-> FALSE,
     outcome |-> [kind |-> "none",
                  error |-> [message |-> "none", type |-> "none",
                             retryable |-> FALSE, last |-> "none"]],
     healthy |-> FALSE, message |-> "none"]

\* The files of the notes folder, by path.
Files == 1..NumFiles

\* A path with no file.
NoFile == [kind |-> "absent", fields |-> {}]

\* The latest call of validateBaseIntegrity: where it is (pc: "idle",
\* "running", "returned" or "raised"), the files getProblemsInFolder listed,
\* the index of the next chunk, the issues pushed (the file and the text
\* after its path), what it returned, and the cache as it was when the
\* files were listed (before).
NoIntegrity ==
    [pc |-> "idle", files |-> <<>>, i |-> 1, issues |-> <<>>, valid |-> FALSE,
     before |-> [f \in Files |-> NoFile]]

\* The triggers of a sync: the command or ribbon, and the auto-sync timer.
Runs == {"manual", "auto"}

\* A sync run from updateProblemBase on: where it is (pc: "idle", "notes"
\* before a createProblemNote, "creating" while its vault.create is in
\* flight, "update" before batchUpdateProblems, "returned" or "raised"), its
\* newProblems and loop index, and what it has done: the records for which
\* it called vault.create or updateProblemInBase (attempted), whether the
\* other run was in flight when it started (overlapped), and whether it was
\* rejected a create because the document existed (collided).
NoRun ==
    [pc |-> "idle", newProblems |-> <<>>, idx |-> 1, attempted |-> {},
     overlapped |-> FALSE, collided |-> FALSE]

\* The paginated fetchAllSubmissions as far as its page requests go: where
\* it is (pc: "none", "waiting" for a page, "returned" or "raised"), the
\* locals offset, lastKey, hasNext, consecutiveFailures and totalProcessed,
\* the variables of the request in flight (sent), and what has happened: the
\* number of submissions received (received), the lastKey of the latest page
\* fetched (gotKey), the variables of the request before the one in flight
\* (prevSent) and whether it failed (prevFailed), and the requests that are
\* waiting for their response (outstanding).
NoCursor ==
    [pc |-> "none", offset |-> 0, lastKey |-> Null, hasNext |-> TRUE,
     consecutiveFailures |-> 0, totalProcessed |-> 0,
     sent |-> [offset |-> 0, lastKey |-> Null],
     received |-> 0, gotKey |-> Null,
     prevSent |-> [offset |-> 0, lastKey |-> Null], prevFailed |-> FALSE,
     outstanding |-> 0]

\* The latest call of batchUpdateProblems: where it is (pc: "idle", "batch"
\* while it awaits Promise.allSettled, "delay" between batches, "returned"),
\* the number of problems passed (n), the index i of the batch, per problem
\* the state of its promise ("waiting" before it is made, "inflight",
\* "fulfilled" or "rejected") and how its updateProblemInBase ended ("none"
\* while it has not), the results pushed and the value returned.
NoUpdates ==
    [pc |-> "idle", n |-> 0, i |-> 1, promises |-> <<>>, ended |-> <<>>,
     results |-> <<>>, updated |-> 0, failed |-> 0]

\* syncIntervalId = null: no timer id is held. The ids setInterval returns
\* are positive.
NoIntervalId == 0

\* The settings of the auto sync: DEFAULT_SETTINGS has it off, every 60
\* minutes.
DefaultAutoSync == [autoSync |-> FALSE, syncInterval |-> 60]

\* The plugin instance as far as auto sync goes, before onload: whether it
\* is loaded, settings.autoSync and settings.syncInterval, the same two keys
\* of the data file, syncIntervalId, the interval timers of the window that
\* are active (id and minutes), the id the next setInterval returns, and the
\* settings objects handed to saveData by the saveSettings calls that are
\* awaiting it.
NoTimers ==
    [loaded |-> FALSE, settings |-> DefaultAutoSync, file |-> DefaultAutoSync,
     syncIntervalId |-> NoIntervalId, active |-> {}, nextId |-> 1,
     saving |-> <<>>]

\* BaseManager's update queue at construction: updateQueue (a Set, in
\* insertion order), isUpdating, and the array handed to batchProcessFiles
\* with the index i of its loop.
NoQueue == [updateQueue |-> <<>>, isUpdating |-> FALSE, updates |-> <<>>, i |-> 1]

\* ---------------------------------------------------------- the API client

\* private readonly MIN_REQUEST_INTERVAL (ms).
MIN_REQUEST_INTERVAL == 100

\* exponentialBackoff's baseDelay default (ms).
BaseDelay == 1000

\* settings.maxRetries || 3 and settings.requestTimeout || 30000.
DefaultMaxRetries == 3

DefaultRequestTimeout == 30000

\* How long a token fetched from the public page is reused (ms).
CSRF_TTL == 30 * 60 * 1000

\* A JavaScript string or null used as a condition.
Truthy(s) == s \notin {Null, ""}

\* String.prototype.trim on the token strings of the model.
Trim(s) == IF s = " " THEN "" ELSE s

\* The constructor's and updateSettings' copy of the settings: x || default.
APISettings(raw) ==
    [csrfToken |-> raw.csrfToken,
     maxRetries |-> IF raw.maxRetries = 0 THEN DefaultMaxRetries ELSE raw.maxRetries,
     requestTimeout |-> IF raw.requestTimeout = 0 THEN DefaultRequestTimeout
                        ELSE raw.requestTimeout]

\* DEFAULT_SETTINGS, restricted to the fields the client copies.
DEFAULT_API_SETTINGS ==
    [csrfToken |-> "", maxRetries |-> DefaultMaxRetries,
     requestTimeout |-> DefaultRequestTimeout]

\* What the settings tab can hand to updateSettings: the token field, the
\* "Max retries" slider, and the timeout left at its default.
RawSettings ==
    [csrfToken : UserTokens, maxRetries : 1..MaxMaxRetries,
     requestTimeout : {DefaultRequestTimeout}]

\* LeetCodeAPI.updateSettings.
UpdateSettings(raw) ==
    /\ apiSettings' = APISettings(raw)
    /\ IF raw.csrfToken # csrfToken
       THEN /\ csrfToken' = IF Truthy(raw.csrfToken) THEN raw.csrfToken ELSE Null
            /\ csrfTokenExpiry' = 0
       ELSE UNCHANGED <<csrfToken, csrfTokenExpiry>>

\* A getCSRFToken that reuses the cached token whatever its age.
GetCSRFTokenIgnoresExpiry(userToken, cached, expiry, time, fetched) ==
    IF Truthy(Trim(userToken))
    THEN [token |-> Trim(userToken), source |-> "user",
          csrfToken |-> cached, expiry |-> expiry]
    ELSE IF Truthy(cached)
    THEN [token |-> cached, source |-> "cache", csrfToken |-> cached, expiry |-> expiry]
    ELSE IF Truthy(fetched)
    THEN [token |-> fetched, source |-> "fetch",
          csrfToken |-> fetched, expiry |-> time + CSRF_TTL]
    ELSE [token |-> Null, source |-> "fetch", csrfToken |-> cached, expiry |-> expiry]

\* LeetCodeAPI.getCSRFToken at time `time`, `fetched` being what
\* fetchCSRFToken finds on the public page should it be called. source tells
\* which branch returned.
GetCSRFToken(userToken, cached, expiry, time, fetched) ==
    IF Truthy(Trim(userToken))
    THEN [token |-> Trim(userToken), source |-> "user",
          csrfToken |-> cached, expiry |-> expiry]
    ELSE IF Truthy(cached) /\ expiry > time
    THEN [token |-> cached, source |-> "cache", csrfToken |-> cached, expiry |-> expiry]
    ELSE IF Truthy(fetched)
    THEN [token |-> fetched, source |-> "fetch",
          csrfToken |-> fetched, expiry |-> time + CSRF_TTL]
    ELSE [token |-> Null, source |-> "fetch", csrfToken |-> cached, expiry |-> expiry]

\* Responses of the remote endpoint to one request: an HTTP response with
\* its status and text, or requestUrl rejecting with an Error (kind "throw",
\* text its message).
Statuses == {200, 400, 401, 403, 429, 500}

Bodies ==
    {"CSRF verification failed", "Forbidden",
     "{errors: [User not found]}", "{errors: [Bad request]}",
     "{data: {question: null}}", "{data: {question}}"}

ThrownMessages == {"timeout", "ECONNREFUSED", "socket hang up"}

Responses ==
    [kind : {"http"}, status : Statuses, text : Bodies]
        \cup [kind : {"throw"}, status : {0}, text : ThrownMessages]

\* A lowering that leaves the text as it is.
KeepCase(text) == text

\* String.prototype.toLowerCase on the response texts.
ToLowerCase(text) ==
    CASE text = "CSRF verification failed" -> "csrf verification failed"
      [] text = "Forbidden" -> "forbidden"
      [] text = "{errors: [User not found]}" -> "{errors: [user not found]}"
      [] text = "{errors: [Bad request]}" -> "{errors: [bad request]}"
      [] OTHER -> text

\* text.includes('csrf'): case-sensitive.
IncludesCsrf(text) == text = "csrf verification failed"

\* JSON.parse(text) succeeds.
Parses(text) == text \notin {"CSRF verification failed", "Forbidden"}

\* data.errors of the parsed text, joined; "" when there is none.
ErrorMessage(text) ==
    CASE text = "{errors: [User not found]}" -> "User not found"
      [] text = "{errors: [Bad request]}" -> "Bad request"
      [] OTHER -> ""

\* data.data.question of the parsed text is present.
HasQuestion(text) == text = "{data: {question}}"

\* new LeetCodeAPIError(message, type, statusCode, retryable); last is the
\* message of the error an aggregate was built from.
LeetCodeAPIError(message, type, retryable) ==
    [message |-> message, type |-> type, retryable |-> retryable, last |-> "none"]

NoError == LeetCodeAPIError("none", "none", FALSE)

\* The operation handed to exponentialBackoff, from the response on: the
\* error it throws, NoError when it returns data.data.
HandleResponse(r) ==
    IF r.kind = "throw"
    THEN IF r.text = "timeout"
         THEN LeetCodeAPIError("Request timeout", "NETWORK", TRUE)
         ELSE IF r.text = "ECONNREFUSED"
         THEN LeetCodeAPIError("Unable to connect", "NETWORK", TRUE)
         ELSE LeetCodeAPIError("Network error", "NETWORK", TRUE)
    ELSE IF r.status = 403
    THEN IF IncludesCsrf(ToLowerCase(r.text))
         THEN LeetCodeAPIError("CSRF verification failed", "CSRF", TRUE)
         ELSE LeetCodeAPIError("Authentication failed", "AUTH", FALSE)
    ELSE IF r.status = 429 THEN LeetCodeAPIError("Rate limited", "RATE_LIMIT", TRUE)
    ELSE IF r.status = 401 THEN LeetCodeAPIError("Authentication failed", "AUTH", FALSE)
    ELSE IF r.status >= 500 THEN LeetCodeAPIError("Server error", "NETWORK", TRUE)
    ELSE IF r.status >= 400 THEN LeetCodeAPIError("HTTP error", "NETWORK", FALSE)
    ELSE IF ~Parses(r.text) THEN LeetCodeAPIError("Invalid JSON", "NETWORK", TRUE)
    ELSE IF ErrorMessage(r.text) = "User not found"
    THEN LeetCodeAPIError("User not found", "NOT_FOUND", FALSE)
    ELSE IF ErrorMessage(r.text) # ""
    THEN LeetCodeAPIError("GraphQL errors", "UNKNOWN", FALSE)
    ELSE NoError

\* fetchProblemDetails after makeGraphQLRequest returned: !data.question.
QuestionError(r) ==
    IF HasQuestion(r.text) THEN NoError
    ELSE LeetCodeAPIError("Problem not found", "NOT_FOUND", FALSE)

\* 2^n.
RECURSIVE Pow2(_)
Pow2(n) == IF n = 0 THEN 1 ELSE 2 * Pow2(n - 1)

\* A backoff whose delay does not grow with the attempt.
BackoffDelayFlat(attempt, jitter) == BaseDelay + jitter

\* baseDelay * Math.pow(2, attempt) + Math.random() * 1000.
BackoffDelay(attempt, jitter) == BaseDelay * Pow2(attempt) + jitter

\* A loop that gives up one attempt early.
LastAttemptEarly(attempt, maxRetries) == attempt + 1 >= maxRetries

\* exponentialBackoff: attempt === maxRetries.
LastAttempt(attempt, maxRetries) == attempt = maxRetries

\* A catch that retries whatever the error.
RethrowNever(error) == FALSE

\* exponentialBackoff: error instanceof LeetCodeAPIError && !error.retryable.
Rethrow(error) == ~error.retryable

\* The error thrown after the loop.
MaxRetriesExceeded(lastError) ==
    [message |-> "Max retries exceeded", type |-> "UNKNOWN", retryable |-> FALSE,
     last |-> lastError.message]

\* One call of fetchProblemDetails through makeGraphQLRequest: where it is
\* (pc), the loop of exponentialBackoff (maxRetries as its default parameter
\* captured it, attempt), when its sleep ends (wake), and what it has done:
\* the requests sent (attempts), the latest one (sentAt, token, source; after
\* is the type of the error the attempt before it threw), the error thrown
\* for the response to it, the delays slept, and the error the call raised to
\* its caller.
IdleCall ==
    [pc |-> "idle", maxRetries |-> 0, attempt |-> 0, wake |-> 0, attempts |-> 0,
     sentAt |-> 0, token |-> Null, source |-> "none", after |-> "none",
     thrown |-> NoError, delays |-> <<>>, error |-> NoError]

Sleeping(o) == ops[o].pc \in {"rate_sleep", "backoff"}

\* No call is between the end of its sleep and its requestUrl: what lies
\* between the two runs without giving way to another callback.
NoneAboutToSend == \A o \in Ops : ops[o].pc # "attempt"

\* makeGraphQLRequest up to the end of enforceRateLimit, or to its sleep.
MakeGraphQLRequest(o) ==
    /\ ops[o].pc = "idle"
    /\ NoneAboutToSend
    /\ LET timeSinceLastRequest == now - lastRequestTime
       IN IF timeSinceLastRequest < MIN_REQUEST_INTERVAL
          THEN /\ ops' = [ops EXCEPT ![o].pc = "rate_sleep",
                                     ![o].wake = now + (MIN_REQUEST_INTERVAL
                                                        - timeSinceLastRequest)]
               /\ UNCHANGED lastRequestTime
          ELSE /\ ops' = [ops EXCEPT ![o].pc = "attempt",
                                     ![o].maxRetries = apiSettings.maxRetries]
               /\ lastRequestTime' = now
    /\ UNCHANGED <<apiSettings, csrfToken, csrfTokenExpiry, now, requests>>
    /\ UNCHANGED <<pluginVars, processedQuestionIds, fetch, batchVars, sideVars>>

\* The sleep of enforceRateLimit ends; exponentialBackoff is entered.
RateLimitWake(o) ==
    /\ ops[o].pc = "rate_sleep"
    /\ NoneAboutToSend
    /\ now >= ops[o].wake
    /\ ops' = [ops EXCEPT ![o].pc = "attempt",
                          ![o].maxRetries = apiSettings.maxRetries]
    /\ lastRequestTime' = now
    /\ UNCHANGED <<apiSettings, csrfToken, csrfTokenExpiry, now, requests>>
    /\ UNCHANGED <<pluginVars, processedQuestionIds, fetch, batchVars, sideVars>>

\* One attempt up to requestUrl: the token is obtained and the request goes
\* out. requests keeps the times of the two latest requests.
SendRequest(o, fetched) ==
    /\ ops[o].pc = "attempt"
    /\ LET t == GetCSRFToken(apiSettings.csrfToken, csrfToken, csrfTokenExpiry,
                             now, fetched)
       IN /\ csrfToken' = t.csrfToken
          /\ csrfTokenExpiry' = t.expiry
          /\ ops' = [ops EXCEPT ![o].pc = "waiting",
                                ![o].attempts = @ + 1,
                                ![o].sentAt = now,
                                ![o].token = t.token,
                                ![o].source = t.source,
                                ![o].after = ops[o].thrown.type,
                                ![o].thrown = NoError]
    /\ requests' = IF requests = <<>> THEN <<now>>
                   ELSE <<requests[Len(requests)], now>>
    /\ UNCHANGED <<apiSettings, lastRequestTime, now>>
    /\ UNCHANGED <<pluginVars, processedQuestionIds, fetch, batchVars, sideVars>>

\* requestUrl settles with r: the rest of the attempt, the catch of
\* exponentialBackoff up to its sleep, the throw after the loop, and
\* fetchProblemDetails' check of the data returned.
Respond(o, r, jitter) ==
    /\ ops[o].pc = "waiting"
    /\ NoneAboutToSend
    /\ LET error == HandleResponse(r)
           call == ops[o]
       IN /\ IF error.type = "CSRF"
             THEN csrfToken' = Null /\ csrfTokenExpiry' = 0
             ELSE UNCHANGED <<csrfToken, csrfTokenExpiry>>
          /\ ops' = [ops EXCEPT ![o] =
                IF error = NoError
                THEN [call EXCEPT !.pc = "done", !.thrown = QuestionError(r),
                                  !.error = QuestionError(r)]
                ELSE IF Rethrow(error)
                THEN [call EXCEPT !.pc = "done", !.thrown = error, !.error = error]
                ELSE IF LastAttempt(call.attempt, call.maxRetries)
                THEN [call EXCEPT !.pc = "done", !.thrown = error,
                                  !.error = MaxRetriesExceeded(error)]
                ELSE [call EXCEPT !.pc = "backoff", !.thrown = error,
                                  !.wake = now + BackoffDelay(call.attempt, jitter),
                                  !.delays = Append(@, BackoffDelay(call.attempt, jitter)),
                                  !.attempt = @ + 1]]
    /\ UNCHANGED <<apiSettings, lastRequestTime, now, requests>>
    /\ UNCHANGED <<pluginVars, processedQuestionIds, fetch, batchVars, sideVars>>

\* The sleep of exponentialBackoff ends: the next iteration of its loop.
BackoffWake(o) ==
    /\ ops[o].pc = "backoff"
    /\ NoneAboutToSend
    /\ now >= ops[o].wake
    /\ ops' = [ops EXCEPT ![o].pc = "attempt"]
    /\ UNCHANGED <<apiSettings, csrfToken, csrfTokenExpiry, lastRequestTime, now,
                   requests>>
    /\ UNCHANGED <<pluginVars, processedQuestionIds, fetch, batchVars, sideVars>>

\* The clock is followed for one token lifetime and the longest call after it.
MaxTime == StartTime + CSRF_TTL + 20 * BaseDelay

\* Time passes: d ms during which no callback of the client runs. A timer
\* fires when it is due, and an attempt reaches requestUrl without waiting.
\* A request in flight holds nothing back: requestUrl is given no timeout.
Elapse(d) ==
    /\ d > 0
    /\ now + d <= MaxTime
    /\ NoneAboutToSend
    /\ \A o \in Ops : Sleeping(o) => now + d <= ops[o].wake
    /\ now' = now + d
    /\ UNCHANGED <<apiSettings, csrfToken, csrfTokenExpiry, lastRequestTime, ops,
                   requests>>
    /\ UNCHANGED <<pluginVars, processedQuestionIds, fetch, batchVars, sideVars>>

\* The time left until the next timer of the client is due.
NextWake == {ops[o].wake - now : o \in {c \in Ops : Sleeping(c)}}

\* The settings tab changes the CSRF token or the retry count: saveSettings
\* writes the settings object to the data file and hands it to the client.
SaveClientSettings(raw) ==
    /\ NoneAboutToSend
    /\ data' = settings.processed
    /\ UpdateSettings(raw)
    /\ UNCHANGED <<lastRequestTime, now, ops, requests>>
    /\ UNCHANGED <<settings, processedProblems, loadPending, savePending, vaultVars,
                   runVars, sinceClear, processedQuestionIds, fetch, batchVars, sideVars>>

\* ------------------------------------------------------------ initial state

Init ==
    /\ settings = DEFAULT_SETTINGS
    /\ data = NoProcessedKey
    /\ processedProblems = {}
    /\ loadPending = TRUE
    /\ savePending = 0
    /\ folderExists = FALSE
    /\ notes = [p \in Problems |-> <<>>]
    /\ topicLinks = {}
    /\ pc = "idle"
    /\ batch = <<>>
    /\ newProblems = <<>>
    /\ idx = 1
    /\ result = NoResult
    /\ attempted = {}
    /\ sinceClear = FALSE
    /\ processedQuestionIds = {}
    /\ fetch = NoFetch
    /\ recent = NoRecent
    /\ all = NoAll
    /\ apiSettings = APISettings(DEFAULT_API_SETTINGS)
    /\ csrfToken = Null
    /\ csrfTokenExpiry = 0
    /\ lastRequestTime = 0
    /\ now = StartTime
    /\ ops = [o \in Ops |-> IdleCall]
    /\ requests = <<>>
    /\ health = NoHealth
    /\ docs = [f \in Files |-> NoFile]
    /\ integrity = NoIntegrity
    /\ runs = [r \in Runs |-> NoRun]
    /\ cursor = NoCursor
    /\ updates = NoUpdates
    /\ timers = NoTimers
    /\ queue = NoQueue

\* --------------------------------------------------------------- the vault

NoteExists(p) == notes[p] # <<>>

\* BaseManager.getExistingProblemIds: the problem_id of every note of the
\* folder whose frontmatter holds one (a number > 0); none when the folder
\* is missing.
GetExistingProblemIds ==
    IF ~folderExists THEN {}
    ELSE {Id(p) : p \in {q \in Problems : \E i \in DOMAIN notes[q] : notes[q][i].hasId}}

\* generateNoteContent: the frontmatter (with problem_id) is written only in
\* Bases format.
NoteContent == [hasId |-> settings.useBasesFormat]

\* What the vault can answer to the vault.create of one createProblemNote call.
NoteOutcomes == {"ok", "create_fails"}

\* A createProblemNote without the existence check.
CreateProblemNoteUnchecked(p, outcome) ==
    IF outcome = "create_fails"
    THEN [notes |-> notes, topicLinks |-> topicLinks, raised |-> TRUE]
    ELSE [notes |-> [notes EXCEPT ![p] = Append(@, NoteContent)],
          topicLinks |-> IF settings.topicBacklinks THEN topicLinks \cup {p}
                         ELSE topicLinks,
          raised |-> FALSE]

\* A createProblemNote that hands an existing path to vault.create, which
\* rejects it.
CreateProblemNoteRejectsExisting(p, outcome) ==
    IF NoteExists(p) \/ outcome = "create_fails"
    THEN [notes |-> notes, topicLinks |-> topicLinks, raised |-> TRUE]
    ELSE [notes |-> [notes EXCEPT ![p] = Append(@, NoteContent)],
          topicLinks |-> IF settings.topicBacklinks THEN topicLinks \cup {p}
                         ELSE topicLinks,
          raised |-> FALSE]

\* ProblemLogWriter.createProblemNote, as the vault after the call and whether
\* the call raised. The note's path derives from the title alone, so a
\* problem has one path.
CreateProblemNote(p, outcome) ==
    IF NoteExists(p)
    THEN [notes |-> notes, topicLinks |-> topicLinks, raised |-> FALSE]
    ELSE IF outcome = "create_fails"
    THEN [notes |-> notes, topicLinks |-> topicLinks, raised |-> TRUE]
    ELSE [notes |-> [notes EXCEPT ![p] = Append(@, NoteContent)],
          topicLinks |-> IF settings.topicBacklinks THEN topicLinks \cup {p}
                         ELSE topicLinks,
          raised |-> FALSE]

\* BaseManager.updateProblemFrontmatter: Object.assign of the record's fields
\* into the note's frontmatter.
UpdateProblemFrontmatter(doc) == [doc EXCEPT !.hasId = TRUE]

\* BaseManager.batchUpdateProblems: every record's updateProblemInBase runs,
\* its rejection is caught per record; failed are the records whose
\* processFrontMatter raised. A record without a note is skipped with a warning.
BatchUpdateProblems(problems, failed) ==
    [p \in Problems |->
        IF p \in Range(problems) /\ p \notin failed /\ NoteExists(p)
        THEN [notes[p] EXCEPT ![1] = UpdateProblemFrontmatter(@)]
        ELSE notes[p]]

\* ------------------------------------------------------------ the writer

\* A filter that consults the store's ids only.
NewProblemsByIdOnly(problems, existingProblemIds, processed) ==
    FilterSeq(problems, {p \in Problems : Id(p) \notin existingProblemIds})

\* The filter of updateProblemBase.
NewProblems(problems, existingProblemIds, processed) ==
    FilterSeq(problems,
              {p \in Problems : Id(p) \notin existingProblemIds /\ Slug(p) \notin processed})

\* A mark step that adds nothing.
MarkNothing(processed, problems) == processed

\* newProblems.forEach(p => this.processedProblems.add(p.titleSlug))
MarkProcessed(processed, problems) == processed \cup {Slug(p) : p \in Range(problems)}

\* The latest call's outcome is forgotten once the in-memory set it worked on
\* has been replaced (startup load, clear, restart), an interrupted run's
\* excepted: the next call may be its retry.
ForgetRun ==
    IF result.kind = "interrupted"
    THEN UNCHANGED <<batch, newProblems, result, attempted>>
    ELSE /\ result' = NoResult
         /\ IF pc = "idle"
            THEN batch' = <<>> /\ newProblems' = <<>> /\ attempted' = {}
            ELSE UNCHANGED <<batch, newProblems, attempted>>

\* updateProblemBase up to its first await on the vault: the snapshot, the
\* filter, the two early returns, createOrUpdateBase (its errors are
\* swallowed) and the entry of createIndividualNotes (ensureDirectory).
UpdateProblemBaseRun(b) ==
    /\ pc = "idle"
    /\ batch' = b
    /\ newProblems' = NewProblems(b, GetExistingProblemIds, processedProblems)
    /\ attempted' = {}
    /\ idx' = 1
    /\ LET prior == IF b # batch THEN "none"
                    ELSE IF result.kind = "interrupted" THEN "interrupted"
                    ELSE IF result.kind = "returned" /\ result.value = batch
                    THEN "returned"
                    ELSE "none"
       IN IF newProblems' = <<>>
          THEN /\ result' = [kind |-> "empty", value |-> <<>>, prior |-> prior]
               /\ pc' = "idle"
               /\ UNCHANGED folderExists
          ELSE IF ~settings.useBasesFormat
          THEN /\ result' = [kind |-> "disabled", value |-> <<>>, prior |-> prior]
               /\ pc' = "idle"
               /\ UNCHANGED folderExists
          ELSE /\ result' = [kind |-> "none", value |-> <<>>, prior |-> prior]
               /\ pc' = IF settings.createIndividualNotes THEN "notes" ELSE "update"
               /\ folderExists' = (folderExists \/ settings.createIndividualNotes)
    /\ UNCHANGED <<settings, data, processedProblems, loadPending, savePending,
                   notes, topicLinks, sinceClear>>

\* updateProblemBase called with a batch, whatever fetch produced it.
UpdateProblemBase(b) == UpdateProblemBaseRun(b) /\ UNCHANGED <<apiVars, sideVars>>

\* One turn of the loop of createIndividualNotes. A createProblemNote that
\* raises leaves the loop, updateBasesFormat rethrows, updateProblemBase
\* rejects, and the sync handler reports the error.
CreateIndividualNotesStep(outcome) ==
    /\ pc = "notes"
    /\ LET p == newProblems[idx]
           r == CreateProblemNote(p, outcome)
       IN /\ notes' = r.notes
          /\ topicLinks' = r.topicLinks
          /\ attempted' = attempted \cup
                {<<p, IF r.raised THEN "create_failed"
                      ELSE IF NoteExists(p) THEN "existed"
                      ELSE "created">>}
          /\ IF r.raised
             THEN /\ pc' = "idle"
                  /\ idx' = 1
                  /\ result' = [result EXCEPT !.kind = "raised"]
             ELSE /\ pc' = IF idx = Len(newProblems) THEN "update" ELSE "notes"
                  /\ idx' = IF idx = Len(newProblems) THEN 1 ELSE idx + 1
                  /\ UNCHANGED result
    /\ UNCHANGED <<settings, data, processedProblems, loadPending, savePending,
                   folderExists, batch, newProblems, sinceClear, apiVars, sideVars>>

\* The rest of updateProblemBase: batchUpdateProblems, then the marks, the
\* un-awaited saveProcessedProblems() and the return. The sync handler then
\* calls createIndividualNotes on the returned records once more when the
\* setting is on (it reads the setting in the turn of the return).
BatchUpdateAndMark(failed) ==
    /\ pc = "update"
    /\ failed \subseteq Range(newProblems)
    /\ savePending < MaxPending
    /\ notes' = BatchUpdateProblems(newProblems, failed)
    /\ attempted' = attempted \cup {<<p, "update">> : p \in Range(newProblems)}
    /\ processedProblems' = MarkProcessed(processedProblems, newProblems)
    /\ savePending' = savePending + 1
    /\ result' = [result EXCEPT !.kind = "returned", !.value = newProblems]
    /\ pc' = IF settings.createIndividualNotes THEN "renotes" ELSE "idle"
    /\ idx' = 1
    /\ sinceClear' = FALSE
    /\ UNCHANGED <<settings, data, loadPending, folderExists, topicLinks,
                   batch, newProblems, apiVars, sideVars>>

\* syncProblems / syncAllProblems after updateProblemBase returned:
\* createIndividualNotes(newProblems), one createProblemNote per turn.
SyncRecreateNotesStep(outcome) ==
    /\ pc = "renotes"
    /\ LET p == newProblems[idx]
           r == CreateProblemNote(p, outcome)
       IN /\ notes' = r.notes
          /\ topicLinks' = r.topicLinks
          /\ folderExists' = TRUE
          /\ IF r.raised \/ idx = Len(newProblems)
             THEN pc' = "idle" /\ idx' = 1
             ELSE pc' = "renotes" /\ idx' = idx + 1
    /\ UNCHANGED <<settings, data, processedProblems, loadPending, savePending,
                   batch, newProblems, result, attempted, sinceClear, apiVars, sideVars>>

\* createProblemNoteFromCursor: fetchProblemDetails, then createProblemNote;
\* every error ends in a notice. The vault creates no file in a folder that
\* does not exist.
CreateProblemNoteFromCursor(p, outcome) ==
    /\ LET r == CreateProblemNote(p, IF folderExists THEN outcome ELSE "create_fails")
       IN /\ notes' = r.notes
          /\ topicLinks' = r.topicLinks
    /\ UNCHANGED <<settings, data, processedProblems, loadPending, savePending,
                   folderExists, runVars, sinceClear, apiVars, sideVars>>

\* -------------------------------------------------- the fetch of a sync

\* submission.timestamp: a later problem of the catalogue was solved later.
Timestamp(p) == p

\* The remote recent list: submissions in any order, a problem possibly
\* more than once.
SubmissionLists == UNION {[1..n -> Problems] : n \in 0..MaxSubmissions}

\* A sort that puts the oldest first.
RECURSIVE SortByTimestampAsc(_)
SortByTimestampAsc(ps) ==
    IF ps = <<>> THEN <<>>
    ELSE LET rest == SortByTimestampAsc(Tail(ps))
             before == {i \in DOMAIN rest : Timestamp(rest[i]) < Timestamp(Head(ps))}
         IN SubSeq(rest, 1, Cardinality(before)) \o <<Head(ps)>>
                \o SubSeq(rest, Cardinality(before) + 1, Len(rest))

\* problems.sort((a, b) => b.timestamp - a.timestamp): the head goes behind
\* the sorted rest's elements that are strictly more recent (the sort is
\* stable).
RECURSIVE SortByTimestampDesc(_)
SortByTimestampDesc(ps) ==
    IF ps = <<>> THEN <<>>
    ELSE LET rest == SortByTimestampDesc(Tail(ps))
             before == {i \in DOMAIN rest : Timestamp(rest[i]) > Timestamp(Head(ps))}
         IN SubSeq(rest, 1, Cardinality(before)) \o <<Head(ps)>>
                \o SubSeq(rest, Cardinality(before) + 1, Len(rest))

\* A duplicate check that finds nothing.
SeenNothing(slug, seenTitleSlugs) == FALSE

\* seenTitleSlugs.has(submission.titleSlug)
Seen(slug, seenTitleSlugs) == slug \in seenTitleSlugs

\* The locals of fetchRecentSubmissions before its loop, with
\* processedQuestionIds; details are the positions of the list for which
\* fetchProblemDetails was called, failedProblems those where it raised.
RecentLocals(processed) ==
    [problems |-> <<>>, seenTitleSlugs |-> {}, failedProblems |-> {},
     details |-> {}, processed |-> processed]

\* The loop of fetchRecentSubmissions from position i of the list on; failed
\* are the positions whose fetchProblemDetails raises.
RECURSIVE RecentLoop(_, _, _, _, _)
RecentLoop(filterProcessed, list, failed, i, st) ==
    IF i > Len(list) THEN st
    ELSE LET submission == list[i]
             fetched == [st EXCEPT !.details = @ \cup {i}]
         IN RecentLoop(filterProcessed, list, failed, i + 1,
                IF Seen(Slug(submission), st.seenTitleSlugs) THEN st
                ELSE IF i \in failed
                THEN [fetched EXCEPT !.failedProblems = @ \cup {i}]
                ELSE IF filterProcessed /\ Id(submission) \in st.processed
                THEN fetched
                ELSE [fetched EXCEPT
                         !.seenTitleSlugs = @ \cup {Slug(submission)},
                         !.problems = Append(@, submission),
                         !.processed = IF filterProcessed
                                       THEN @ \cup {Id(submission)} ELSE @])

\* LeetCodeAPI.fetchRecentSubmissions once the list request has answered
\* list: failed are the positions of the list whose fetchProblemDetails
\* raises, processed is processedQuestionIds. The call raises when something
\* failed and nothing was pushed; else it returns what was pushed, sorted.
FetchRecentSubmissions(filterProcessed, list, failed, processed) ==
    LET st == RecentLoop(filterProcessed, list, failed, 1, RecentLocals(processed))
    IN [raised |-> st.failedProblems # {} /\ st.problems = <<>>,
        problems |-> SortByTimestampDesc(st.problems),
        details |-> st.details,
        failedProblems |-> st.failedProblems,
        processed |-> st.processed]

\* LeetCodeAPI.fetchAllSubmissions without a session token (the default):
\* it falls back to fetchRecentSubmissions(false, 100).
FetchAllSubmissions(list, failed, processed) ==
    FetchRecentSubmissions(FALSE, list, failed, processed)

\* LeetFetchPlugin.shouldFetchAllProblems. Every run creates the base file
\* before the notes folder, so a vault with the folder has the base file.
ShouldFetchAllProblems ==
    /\ settings.fetchAllOnEmpty
    /\ ~folderExists \/ \A p \in Problems : ~NoteExists(p)

\* A sync handler from its fetch to the first await of updateProblemBase;
\* a fetch that raises ends the handler with a notice.
SyncWith(filterProcessed, list, failed) ==
    /\ pc = "idle"
    /\ failed \subseteq DOMAIN list
    /\ LET r == IF filterProcessed
                THEN FetchRecentSubmissions(TRUE, list, failed, processedQuestionIds)
                ELSE FetchAllSubmissions(list, failed, processedQuestionIds)
       IN /\ processedQuestionIds' = r.processed
          /\ fetch' = [kind |-> IF r.raised THEN "raised" ELSE "returned",
                       allFailed |-> r.details # {} /\ r.failedProblems = r.details]
          /\ IF r.raised
             THEN UNCHANGED pluginVars
             ELSE UpdateProblemBaseRun(r.problems)
    /\ UNCHANGED <<batchVars, clientVars, sideVars>>

\* LeetFetchPlugin.syncProblems with the remote recent list and the
\* positions of it whose detail fetch fails.
SyncProblems(list, failed) == SyncWith(~ShouldFetchAllProblems, list, failed)

\* LeetFetchPlugin.syncAllProblems.
SyncAllProblems(list, failed) == SyncWith(FALSE, list, failed)

\* ------------------------------------------------------- the batch fetches

\* One call of LeetCodeAPI.fetchRecentSubmissions, answered list by the
\* remote endpoint; failed are the positions whose fetchProblemDetails raises.
FetchRecent(filterProcessed, list, failed) ==
    /\ all.pc # "running"
    /\ failed \subseteq DOMAIN list
    /\ LET r == FetchRecentSubmissions(filterProcessed, list, failed,
                                       processedQuestionIds)
       IN /\ recent' = [kind |-> IF r.raised THEN "raised" ELSE "returned",
                        filterProcessed |-> filterProcessed,
                        seenAtStart |-> processedQuestionIds,
                        list |-> list,
                        details |-> r.details,
                        failedProblems |-> r.failedProblems,
                        problems |-> IF r.raised THEN <<>> ELSE r.problems]
          /\ processedQuestionIds' = r.processed
    /\ all' = NoAll
    /\ UNCHANGED <<pluginVars, fetch, clientVars, sideVars>>

\* settings.sessionToken as the settings tab stores it.
SessionTokens == {"", "session-token"}

\* statusDisplay of a submission of the submission list.
StatusDisplays == {"Accepted", "Wrong Answer"}

Submissions == [problem : Problems, statusDisplay : StatusDisplays]

\* data.submissionList when it has a submissions array.
Pages ==
    [submissions : UNION {[1..n -> Submissions] : n \in 0..MaxSubmissions},
     hasNext : BOOLEAN]

\* What makeGraphQLRequest throws to fetchAllSubmissions: an error that is
\* not retryable, or the aggregate of exponentialBackoff.
PageErrors ==
    {LeetCodeAPIError("Authentication failed", "AUTH", FALSE),
     MaxRetriesExceeded(LeetCodeAPIError("Rate limited", "RATE_LIMIT", TRUE))}

IsAccepted(submission) == submission.statusDisplay = "Accepted"

\* A filter that keeps every submission.
EverySubmission(submissions) == submissions

\* page.submissions.filter(sub => sub.statusDisplay === "Accepted")
AcceptedSubmissions(submissions) == SelectSeq(submissions, IsAccepted)

\* The loop over acceptedSubmissions from position i on; failed are the
\* positions whose fetchProblemDetails raises.
RECURSIVE PageLoop(_, _, _, _)
PageLoop(accepted, failed, i, st) ==
    IF i > Len(accepted) THEN st
    ELSE LET sub == accepted[i]
             fetched == [st EXCEPT !.detailed = @ \cup {sub}]
         IN PageLoop(accepted, failed, i + 1,
                IF Slug(sub.problem) \in st.processedTitleSlugs THEN st
                ELSE IF i \in failed
                THEN [fetched EXCEPT !.failedProblems = @ \cup {Slug(sub.problem)}]
                ELSE [fetched EXCEPT
                         !.problems = Append(@, sub.problem),
                         !.processedTitleSlugs = @ \cup {Slug(sub.problem)},
                         !.totalProcessed = @ + 1])

\* A loop that goes on after the last page.
ContinuePastLastPage(st) ==
    /\ st.consecutiveFailures < maxConsecutiveFailures
    /\ st.totalProcessed < maxProblems

\* The condition of the while loop.
Continue(st) ==
    /\ st.hasNext
    /\ st.consecutiveFailures < maxConsecutiveFailures
    /\ st.totalProcessed < maxProblems

\* A catch that gives up one failure late.
AbortLate(consecutiveFailures) == consecutiveFailures > maxConsecutiveFailures

\* The catch of the loop: consecutiveFailures >= maxConsecutiveFailures.
Abort(consecutiveFailures) == consecutiveFailures >= maxConsecutiveFailures

\* The error the catch throws then.
ConsecutiveFailures(error) ==
    [message |-> "Failed to fetch submissions after consecutive failures",
     type |-> "UNKNOWN", retryable |-> FALSE, last |-> error.message]

\* From the end of an iteration to the next await: the sleep before the next
\* page request when the loop goes on, else the return after the loop.
LoopHead(st) ==
    IF Continue(st) THEN st
    ELSE [st EXCEPT !.pc = "returned", !.result = SortByTimestampDesc(st.problems)]

\* pageRequests, counted up to MaxPages.
CountPage(n) == IF n < MaxPages THEN n + 1 ELSE n

\* One call of LeetCodeAPI.fetchAllSubmissions up to its first await: without
\* a session token it is fetchRecentSubmissions(false, 100), else the
\* paginated loop begins.
FetchAll(sessionToken, list, failed) ==
    IF Truthy(sessionToken)
    THEN /\ all.pc # "running"
         /\ list = <<>>
         /\ failed = {}
         /\ all' = LoopHead([NoAll EXCEPT !.pc = "running"])
         /\ recent' = NoRecent
         /\ UNCHANGED <<pluginVars, processedQuestionIds, fetch, clientVars, sideVars>>
    ELSE FetchRecent(FALSE, list, failed)

\* An iteration of the loop whose page request is answered page; failed are
\* the positions of its accepted submissions whose fetchProblemDetails raises.
FetchAllPage(page, failed) ==
    /\ all.pc = "running"
    /\ LET accepted == AcceptedSubmissions(page.submissions)
           answered == [all EXCEPT !.consecutiveFailures = 0,
                                   !.pageRequests = CountPage(@),
                                   !.streak = 0,
                                   !.lastError = NoError,
                                   !.served = @ \cup Range(page.submissions),
                                   !.lastPage = IF @ = 0 /\ ~page.hasNext
                                                THEN CountPage(all.pageRequests)
                                                ELSE @]
       IN /\ failed \subseteq DOMAIN accepted
          /\ all' = LoopHead([PageLoop(accepted, failed, 1, answered)
                                 EXCEPT !.hasNext = page.hasNext])
    /\ UNCHANGED <<pluginVars, processedQuestionIds, fetch, recent, clientVars, sideVars>>

\* An iteration whose page comes without a submissions array: the loop is
\* left before consecutiveFailures is reset.
FetchAllNoSubmissions ==
    /\ all.pc = "running"
    /\ all' = [all EXCEPT !.pageRequests = CountPage(@),
                          !.streak = 0,
                          !.lastError = NoError,
                          !.noSubmissions = TRUE,
                          !.pc = "returned",
                          !.result = SortByTimestampDesc(all.problems)]
    /\ UNCHANGED <<pluginVars, processedQuestionIds, fetch, recent, clientVars, sideVars>>

\* An iteration whose page request throws error.
FetchAllPageFails(error) ==
    /\ all.pc = "running"
    /\ LET failures == all.consecutiveFailures + 1
           caught == [all EXCEPT !.consecutiveFailures = failures,
                                 !.pageRequests = CountPage(@),
                                 !.pageFailures =
                                     IF @ < maxConsecutiveFailures THEN @ + 1 ELSE @,
                                 !.streak = @ + 1,
                                 !.lastError = error]
       IN all' = IF Abort(failures)
                 THEN [caught EXCEPT !.pc = "raised",
                                     !.error = ConsecutiveFailures(error)]
                 ELSE LoopHead(caught)
    /\ UNCHANGED <<pluginVars, processedQuestionIds, fetch, recent, clientVars, sideVars>>

\* A step of the paginated loop: the remote service answers the request the
\* loop is waiting for.
FetchAllStep ==
    \/ \E page \in Pages, f \in SUBSET (1..MaxSubmissions) : FetchAllPage(page, f)
    \/ FetchAllNoSubmissions
    \/ \E e \in PageErrors : FetchAllPageFails(e)

\* ----------------------------------------------------------- healthCheck

\* settings.username as the settings tab and the data file can leave it.
Usernames == {Null, "", " ", "alice", " alice "}

\* What makeGraphQLRequest throws to its caller: a LeetCodeAPIError that is
\* not retryable, or the aggregate of exponentialBackoff.
ThrownErrors ==
    LET errors == {HandleResponse(r) : r \in Responses} \ {NoError}
    IN {e \in errors : Rethrow(e)}
           \cup {MaxRetriesExceeded(e) : e \in {x \in errors : ~Rethrow(x)}}

\* How the makeGraphQLRequest of fetchUserProfile ends: with data that holds
\* matchedUser or not, with a LeetCodeAPIError, or with another error (a
\* TypeError on a response without data).
ProfileOutcomes ==
    [kind : {"matchedUser", "no matchedUser", "TypeError"}, error : {NoError}]
        \cup [kind : {"LeetCodeAPIError"}, error : ThrownErrors]

\* this.settings.username?.trim() as a condition.
HasUsername(username) == username # Null /\ Truthy(Trim(username))

\* fetchUserProfile after its request: the error it throws, NoError when it
\* returns data.matchedUser. other: the error is not a LeetCodeAPIError.
ProfileError(outcome) ==
    IF outcome.kind = "matchedUser" THEN [error |-> NoError, other |-> FALSE]
    ELSE IF outcome.kind = "no matchedUser"
    THEN [error |-> LeetCodeAPIError("User not found", "NOT_FOUND", FALSE),
          other |-> FALSE]
    ELSE IF outcome.kind = "TypeError"
    THEN [error |-> LeetCodeAPIError("TypeError", "none", FALSE), other |-> TRUE]
    ELSE [error |-> outcome.error, other |-> FALSE]

\* A catch that handles LeetCodeAPIError alone.
CatchesApiErrorsOnly(thrown) == ~thrown.other

\* catch (error) of healthCheck.
Catches(thrown) == TRUE

\* The message of the catch.
HealthMessage(thrown) ==
    IF ~thrown.other THEN thrown.error.message ELSE "API health check failed"

\* LeetCodeAPI.updateSettings as far as the username goes.
SaveUsername(username) ==
    /\ health' = [health EXCEPT !.username = username]
    /\ UNCHANGED <<pluginVars, apiVars, docs, integrity, runs, cursor,
                   updates,
                   timers, queue>>

\* healthCheck up to its first await.
HealthCheck ==
    /\ health.pc # "waiting"
    /\ health' =
          IF ~HasUsername(health.username)
          THEN [health EXCEPT !.pc = "returned", !.calledWith = health.username,
                              !.sent = FALSE, !.outcome = NoHealth.outcome,
                              !.healthy = FALSE,
                              !.message = "Username not configured"]
          ELSE [health EXCEPT !.pc = "waiting", !.calledWith = health.username,
                              !.sent = TRUE, !.outcome = NoHealth.outcome,
                              !.healthy = FALSE, !.message = "none"]
    /\ UNCHANGED <<pluginVars, apiVars, docs, integrity, runs, cursor,
                   updates,
                   timers, queue>>

\* healthCheck from the end of makeGraphQLRequest on.
HealthCheckEnds(outcome) ==
    /\ health.pc = "waiting"
    /\ LET thrown == ProfileError(outcome)
       IN health' =
             IF thrown.error = NoError
             THEN [health EXCEPT !.pc = "returned", !.outcome = outcome,
                                 !.healthy = TRUE,
                                 !.message = "API connection successful"]
             ELSE IF Catches(thrown)
             THEN [health EXCEPT !.pc = "returned", !.outcome = outcome,
                                 !.healthy = FALSE,
                                 !.message = HealthMessage(thrown)]
             ELSE [health EXCEPT !.pc = "raised", !.outcome = outcome,
                                 !.message = thrown.error.message]
    /\ UNCHANGED <<pluginVars, apiVars, docs, integrity, runs, cursor,
                   updates,
                   timers, queue>>

\* ------------------------------------------------- validateBaseIntegrity

\* const requiredFields of validateProblemNote.
RequiredFields == {"problem_id", "title", "difficulty", "status"}

\* What the metadata cache gives for a file of the folder: no frontmatter, a
\* frontmatter with some keys, or an exception.
Documents ==
    [kind : {"none", "throws"}, fields : {{}}]
        \cup [kind : {"frontmatter"}, fields : SUBSET RequiredFields]

\* A validateProblemNote that does not look at the status.
ValidateProblemNoteWithoutStatus(doc) ==
    IF doc.kind = "throws" THEN [valid |-> FALSE, issues |-> "Error reading file"]
    ELSE IF doc.kind = "none" THEN [valid |-> FALSE, issues |-> "Missing frontmatter"]
    ELSE IF (RequiredFields \ {"status"}) \subseteq doc.fields
    THEN [valid |-> TRUE, issues |-> ""]
    ELSE [valid |-> FALSE, issues |-> "Missing required field"]

\* BaseManager.validateProblemNote.
ValidateProblemNote(doc) ==
    IF doc.kind = "throws" THEN [valid |-> FALSE, issues |-> "Error reading file"]
    ELSE IF doc.kind = "none" THEN [valid |-> FALSE, issues |-> "Missing frontmatter"]
    ELSE IF RequiredFields \subseteq doc.fields THEN [valid |-> TRUE, issues |-> ""]
    ELSE [valid |-> FALSE, issues |-> "Missing required field"]

\* results.forEach of one chunk, from position k of the chunk on.
RECURSIVE PushIssues(_, _, _)
PushIssues(chunk, k, issues) ==
    IF k > Len(chunk) THEN issues
    ELSE LET r == ValidateProblemNote(docs[chunk[k]])
         IN PushIssues(chunk, k + 1,
                IF r.valid THEN issues
                ELSE Append(issues, [file |-> chunk[k], text |-> r.issues]))

\* getProblemsInFolder: the markdown files of the folder, in path order.
RECURSIVE ProblemsInFolder(_)
ProblemsInFolder(f) ==
    IF f > NumFiles THEN <<>>
    ELSE (IF docs[f].kind = "absent" THEN <<>> ELSE <<f>>) \o ProblemsInFolder(f + 1)

\* The user, a sync or the indexer changes what the cache holds for a file,
\* while no validation is running.
ChangeDocument(f, doc) ==
    /\ integrity.pc # "running"
    /\ docs' = [docs EXCEPT ![f] = doc]
    /\ UNCHANGED <<pluginVars, apiVars, health, integrity, runs, cursor, updates,
                   timers, queue>>

\* validateBaseIntegrity up to its first chunk.
ValidateBaseIntegrity ==
    /\ integrity.pc # "running"
    /\ LET files == ProblemsInFolder(1)
       IN integrity' =
             IF files = <<>>
             THEN [NoIntegrity EXCEPT !.pc = "returned", !.valid = TRUE,
                                      !.before = docs]
             ELSE [NoIntegrity EXCEPT !.pc = "running", !.files = files,
                                      !.before = docs]
    /\ UNCHANGED <<pluginVars, apiVars, health, docs, runs, cursor, updates,
                   timers, queue>>

\* One turn of the loop: the chunk from i on settles, its issues are pushed;
\* after the last chunk the call returns.
ValidateChunk ==
    /\ integrity.pc = "running"
    /\ LET last == IF integrity.i + CHUNK_SIZE - 1 < Len(integrity.files)
                   THEN integrity.i + CHUNK_SIZE - 1 ELSE Len(integrity.files)
           chunk == SubSeq(integrity.files, integrity.i, last)
           issues == PushIssues(chunk, 1, integrity.issues)
       IN integrity' =
             IF last = Len(integrity.files)
             THEN [integrity EXCEPT !.pc = "returned", !.issues = issues,
                                    !.i = last + 1, !.valid = (issues = <<>>)]
             ELSE [integrity EXCEPT !.issues = issues, !.i = last + 1]
    /\ UNCHANGED <<pluginVars, apiVars, health, docs, runs, cursor, updates,
                   timers, queue>>

\* ------------------------------------------------------ overlapping runs

InFlight(r) == runs[r].pc \in {"notes", "creating", "update"}

\* What the vault can answer to a vault.create: the file is created, the
\* write fails, or the path is taken.
CreateOutcomes == {"ok", "create_fails", "already_exists"}

\* syncProblems of one trigger, from the fetched batch b to the filter of
\* updateProblemBase (past getExistingProblemIds). Nothing keeps a trigger
\* from starting a run while the run of the other is in flight.
RunStarts(r, b) ==
    /\ ~InFlight(r)
    /\ settings.useBasesFormat /\ settings.createIndividualNotes
    /\ LET new == NewProblems(b, GetExistingProblemIds, processedProblems)
       IN runs' = [runs EXCEPT ![r] =
             [NoRun EXCEPT !.pc = IF new = <<>> THEN "returned" ELSE "notes",
                           !.newProblems = new,
                           !.overlapped = \E o \in Runs \ {r} : InFlight(o)]]
    /\ folderExists' = (folderExists \/ \E o \in Runs : runs'[o].pc = "notes")
    /\ UNCHANGED <<settings, data, processedProblems, loadPending, savePending,
                   notes, topicLinks, runVars, sinceClear, apiVars, health, docs,
                   integrity, cursor, updates,
                   timers, queue>>

\* createProblemNote up to its await: the path is looked up, and when no
\* file is there vault.create is called.
RunChecksNote(r) ==
    /\ runs[r].pc = "notes"
    /\ LET p == runs[r].newProblems[runs[r].idx]
           last == runs[r].idx = Len(runs[r].newProblems)
       IN runs' = [runs EXCEPT ![r] =
             IF NoteExists(p)
             THEN [@ EXCEPT !.pc = IF last THEN "update" ELSE "notes",
                            !.idx = IF last THEN 1 ELSE @ + 1]
             ELSE [@ EXCEPT !.pc = "creating", !.attempted = @ \cup {p}]]
    /\ UNCHANGED <<pluginVars, apiVars, health, docs, integrity, cursor,
                   updates,
                   timers, queue>>

\* The vault.create of a createProblemNote settles. A path that another
\* create has taken meanwhile is rejected or written again.
RunCreateSettles(r, outcome) ==
    /\ runs[r].pc = "creating"
    /\ LET p == runs[r].newProblems[runs[r].idx]
           last == runs[r].idx = Len(runs[r].newProblems)
       IN /\ outcome = "already_exists" => NoteExists(p)
          /\ IF outcome = "ok"
             THEN /\ notes' = [notes EXCEPT ![p] = Append(@, NoteContent)]
                  /\ topicLinks' = IF settings.topicBacklinks
                                   THEN topicLinks \cup {p} ELSE topicLinks
                  /\ runs' = [runs EXCEPT ![r].pc = IF last THEN "update" ELSE "notes",
                                          ![r].idx = IF last THEN 1 ELSE @ + 1]
             ELSE /\ runs' = [runs EXCEPT ![r].pc = "raised",
                                          ![r].collided = (outcome = "already_exists")]
                  /\ UNCHANGED <<notes, topicLinks>>
    /\ UNCHANGED <<settings, data, processedProblems, loadPending, savePending,
                   folderExists, runVars, sinceClear, apiVars, health, docs,
                   integrity, cursor, updates,
                   timers, queue>>

\* The rest of updateProblemBase: batchUpdateProblems updates the note of
\* every record of newProblems, the records are marked and the call returns.
\* The save that follows is left out: these sessions do not read the data
\* file.
RunUpdatesAndMarks(r) ==
    /\ runs[r].pc = "update"
    /\ notes' = BatchUpdateProblems(runs[r].newProblems, {})
    /\ processedProblems' = MarkProcessed(processedProblems, runs[r].newProblems)
    /\ runs' = [runs EXCEPT ![r].pc = "returned",
                            ![r].attempted = @ \cup Range(runs[r].newProblems)]
    /\ UNCHANGED <<settings, data, loadPending, savePending, folderExists,
                   topicLinks, runVars, sinceClear, apiVars, health, docs,
                   integrity, cursor, updates,
                   timers, queue>>

\* -------------------------------------------------------- the page cursor

\* page.lastKey as the remote service returns it.
LastKeys == {Null, "key-a", "key-b"}

\* An offset that advances by the page size asked for.
AdvanceByLimit(offset, count) == offset + MaxSubmissions

\* offset += page.submissions.length
AdvanceOffset(offset, count) == offset + count

\* makeGraphQLRequest(query, {offset, limit, lastKey}) at the head of the
\* loop, or the return when the loop condition fails.
RequestPage(st, failed) ==
    IF Continue(st)
    THEN [st EXCEPT !.pc = "waiting",
                    !.sent = [offset |-> st.offset, lastKey |-> st.lastKey],
                    !.prevSent = st.sent,
                    !.prevFailed = failed,
                    !.outstanding = @ + 1]
    ELSE [st EXCEPT !.pc = "returned"]

\* fetchAllSubmissions with a session token, up to its first page request.
CursorStarts ==
    /\ cursor.pc # "waiting"
    /\ cursor' = RequestPage(NoCursor, FALSE)
    /\ UNCHANGED <<pluginVars, apiVars, health, docs, integrity, runs, updates,
                   timers, queue>>

\* An iteration whose page holds count submissions, new of them accepted
\* ones of problems not collected yet, with the page's hasNext and lastKey.
CursorPage(count, new, hasNext, lastKey) ==
    /\ cursor.pc = "waiting"
    /\ new <= count
    /\ cursor.offset + count <= MaxOffset
    /\ cursor' = RequestPage(
          [cursor EXCEPT !.outstanding = @ - 1,
                         !.consecutiveFailures = 0,
                         !.totalProcessed = @ + new,
                         !.hasNext = hasNext,
                         !.lastKey = lastKey,
                         !.offset = AdvanceOffset(@, count),
                         !.received = @ + count,
                         !.gotKey = lastKey], FALSE)
    /\ UNCHANGED <<pluginVars, apiVars, health, docs, integrity, runs, updates,
                   timers, queue>>

\* An iteration whose page comes without a submissions array.
CursorNoSubmissions ==
    /\ cursor.pc = "waiting"
    /\ cursor' = [cursor EXCEPT !.outstanding = @ - 1, !.pc = "returned"]
    /\ UNCHANGED <<pluginVars, apiVars, health, docs, integrity, runs, updates,
                   timers, queue>>

\* An iteration whose page request throws.
CursorPageFails ==
    /\ cursor.pc = "waiting"
    /\ LET caught == [cursor EXCEPT !.outstanding = @ - 1,
                                    !.consecutiveFailures = @ + 1]
       IN cursor' = IF Abort(caught.consecutiveFailures)
                    THEN [caught EXCEPT !.pc = "raised"]
                    ELSE RequestPage(caught, TRUE)
    /\ UNCHANGED <<pluginVars, apiVars, health, docs, integrity, runs, updates,
                   timers, queue>>

\* ------------------------------------------------------ batchUpdateProblems

\* How one updateProblemInBase ends: the frontmatter is written, the note is
\* not found (a warning and a return), or processFrontMatter raises.
UpdateOutcomes == {"ok", "no_note", "raises"}

\* The positions of problems.slice(i, i + BATCH_SIZE).
BatchAt(i, n) == {k \in 1..n : i <= k /\ k < i + BATCH_SIZE}

\* The promise updateProblemInBase returns: rejected when the frontmatter
\* update raises, fulfilled when it is written or the note is not found.
UpdateProblemInBase(outcome) ==
    IF outcome = "raises" THEN "rejected" ELSE "fulfilled"

\* promise.catch(error => ({success: false, ...})): the handler returns a
\* value, so the promise of a rejected update is fulfilled with it.
CatchError(status) ==
    IF status = "rejected" THEN "fulfilled" ELSE status

\* The promise of one record in batchPromises.
PromiseSettles(outcome) == CatchError(UpdateProblemInBase(outcome))

\* An await that goes on when one promise of the batch has settled.
AnySettled(st) ==
    \E k \in BatchAt(st.i, st.n) : st.promises[k] # "inflight"

\* await Promise.allSettled(batchPromises) is over.
AllSettled(st) ==
    \A k \in BatchAt(st.i, st.n) : st.promises[k] # "inflight"

\* batch.map(problem => this.updateProblemInBase(problem).catch(...)): the
\* update of every record of the batch is started.
StartBatch(st) ==
    [st EXCEPT !.pc = "batch",
               !.promises = [k \in 1..st.n |->
                                IF k \in BatchAt(st.i, st.n) THEN "inflight"
                                ELSE st.promises[k]]]

\* results.filter(r => r.status === 'fulfilled').length
Successful(results) ==
    Cardinality({k \in DOMAIN results : results[k] = "fulfilled"})

\* batchUpdateProblems called with n problems, up to its first await.
BatchUpdateStarts(n) ==
    /\ updates.pc \in {"idle", "returned"}
    /\ updates' =
          IF n = 0 THEN [NoUpdates EXCEPT !.pc = "returned"]
          ELSE StartBatch([NoUpdates EXCEPT !.n = n,
                                            !.promises = [k \in 1..n |-> "waiting"],
                                            !.ended = [k \in 1..n |-> "none"]])
    /\ UNCHANGED <<pluginVars, apiVars, health, docs, integrity, runs, cursor,
                   timers, queue>>

\* The promise of record k settles.
UpdateSettles(k, outcome) ==
    /\ updates.pc \in {"batch", "delay"}
    /\ k \in DOMAIN updates.promises
    /\ updates.promises[k] = "inflight"
    /\ updates' = [updates EXCEPT !.promises[k] = PromiseSettles(outcome),
                                  !.ended[k] = outcome]
    /\ UNCHANGED <<pluginVars, apiVars, health, docs, integrity, runs, cursor,
                   timers, queue>>

\* The await of the batch is over: its results are pushed; the delay before
\* the next batch begins, or the counts are returned.
BatchSettles ==
    /\ updates.pc = "batch"
    /\ AllSettled(updates)
    /\ LET results == updates.results \o
               [j \in 1..Cardinality(BatchAt(updates.i, updates.n)) |->
                    updates.promises[updates.i + j - 1]]
       IN updates' =
             IF updates.i + BATCH_SIZE <= updates.n
             THEN [updates EXCEPT !.pc = "delay", !.results = results]
             ELSE [updates EXCEPT !.pc = "returned", !.results = results,
                                  !.updated = Successful(results),
                                  !.failed = Len(results) - Successful(results)]
    /\ UNCHANGED <<pluginVars, apiVars, health, docs, integrity, runs, cursor,
                   timers, queue>>

\* The timer of the delay fires and the next batch is started.
NextBatchStarts ==
    /\ updates.pc = "delay"
    /\ updates' = StartBatch([updates EXCEPT !.i = @ + BATCH_SIZE])
    /\ UNCHANGED <<pluginVars, apiVars, health, docs, integrity, runs, cursor,
                   timers, queue>>

\* ---------------------------------------------------------- the auto sync

\* The values of the sync-interval slider the model uses, in minutes.
SyncIntervals == {5, 60}

\* How saveData ends.
SaveDataOutcomes == {"ok", "fails"}

\* window.clearInterval(id)
ClearInterval(active, id) == {t \in active : t.id # id}

\* setupAutoSync: the timer of syncIntervalId, if any, is cleared, and a new
\* one is set with the interval of the settings.
SetupAutoSync(st) ==
    [st EXCEPT !.active = ClearInterval(st.active, st.syncIntervalId) \cup
                              {[id |-> st.nextId,
                                minutes |-> st.settings.syncInterval]},
               !.syncIntervalId = st.nextId,
               !.nextId = @ + 1]

\* The end of onload and of saveSettings: the timer is set up when autoSync
\* is on; saveSettings clears it and forgets its id when autoSync is off.
AdjustAutoSync(st) ==
    IF st.settings.autoSync THEN SetupAutoSync(st)
    ELSE IF st.syncIntervalId # NoIntervalId
    THEN [st EXCEPT !.active = ClearInterval(st.active, st.syncIntervalId),
                    !.syncIntervalId = NoIntervalId]
    ELSE st

\* onload of a new plugin instance: loadSettings copies the data file over
\* the defaults, and the timer is set up when autoSync is on. The model
\* follows one instance at a time.
Onload ==
    /\ ~timers.loaded
    /\ timers.saving = <<>>
    /\ timers.nextId <= MaxTimerId
    /\ LET st == [timers EXCEPT !.loaded = TRUE, !.settings = timers.file,
                                !.syncIntervalId = NoIntervalId]
       IN timers' = IF st.settings.autoSync THEN SetupAutoSync(st) ELSE st
    /\ UNCHANGED <<pluginVars, apiVars, health, docs, integrity, runs, cursor,
                   updates, queue>>

\* The settings tab changes autoSync or syncInterval in place and calls
\* saveSettings, which hands the settings to saveData and awaits it.
ChangeAutoSync(autoSync, minutes) ==
    /\ timers.loaded
    /\ Len(timers.saving) < MaxSaving
    /\ LET changed == [autoSync |-> autoSync, syncInterval |-> minutes]
       IN timers' = [timers EXCEPT !.settings = changed,
                                   !.saving = Append(@, changed)]
    /\ UNCHANGED <<pluginVars, apiVars, health, docs, integrity, runs, cursor,
                   updates, queue>>

\* The saveData of the oldest saveSettings call settles. When it has written
\* the file, saveSettings goes on: with autoSync on it sets the timer up,
\* with autoSync off it clears it. When saveData rejects, saveSettings ends
\* there.
SaveSettingsEnds(outcome) ==
    /\ timers.saving # <<>>
    /\ timers.settings.autoSync => timers.nextId <= MaxTimerId
    /\ LET st == [timers EXCEPT !.saving = Tail(@)]
       IN timers' = IF outcome = "ok"
                    THEN AdjustAutoSync([st EXCEPT !.file = Head(timers.saving)])
                    ELSE st
    /\ UNCHANGED <<pluginVars, apiVars, health, docs, integrity, runs, cursor,
                   updates, queue>>

\* onunload: the timer of syncIntervalId is cleared; the id is kept.
Onunload ==
    /\ timers.loaded
    /\ timers' = [timers EXCEPT !.loaded = FALSE,
                                !.active = IF timers.syncIntervalId # NoIntervalId
                                           THEN ClearInterval(@, timers.syncIntervalId)
                                           ELSE @]
    /\ UNCHANGED <<pluginVars, apiVars, health, docs, integrity, runs, cursor,
                   updates, queue>>

\* -------------------------------------------------------- the update queue

\* The paths of the problem files the vault reports events for.
Paths == {"two-sum.md", "add-two-numbers.md", "three-sum.md"}

\* updateQueue.add(filePath)
AddToQueue(q, filePath) ==
    IF \E k \in DOMAIN q : q[k] = filePath THEN q ELSE Append(q, filePath)

\* processUpdateQueue up to its await: nothing when a run is in process or
\* the queue is empty; else the queue is copied, cleared and handed to
\* batchProcessFiles, whose first batch is started.
ProcessUpdateQueue(st) ==
    IF st.isUpdating \/ st.updateQueue = <<>> THEN st
    ELSE [st EXCEPT !.isUpdating = TRUE, !.updates = st.updateQueue,
                    !.updateQueue = <<>>, !.i = 1]

\* A create or modify event of a problem file: queueUpdate(file.path).
QueueUpdate(filePath) ==
    /\ queue' = ProcessUpdateQueue(
                    [queue EXCEPT !.updateQueue = AddToQueue(@, filePath)])
    /\ UNCHANGED <<pluginVars, apiVars, health, docs, integrity, runs, cursor,
                   updates, timers>>

\* The Promise.all of a batch of batchProcessFiles resolves and the next
\* batch is started.
BatchProcessed ==
    /\ queue.isUpdating
    /\ queue.i + FILES_BATCH_SIZE <= Len(queue.updates)
    /\ queue' = [queue EXCEPT !.i = @ + FILES_BATCH_SIZE]
    /\ UNCHANGED <<pluginVars, apiVars, health, docs, integrity, runs, cursor,
                   updates, timers>>

\* The last batch resolves, batchProcessFiles returns and the finally block
\* of processUpdateQueue resets isUpdating.
ProcessUpdateQueueEnds ==
    /\ queue.isUpdating
    /\ queue.i + FILES_BATCH_SIZE > Len(queue.updates)
    /\ queue' = [queue EXCEPT !.isUpdating = FALSE, !.updates = <<>>, !.i = 1]
    /\ UNCHANGED <<pluginVars, apiVars, health, docs, integrity, runs, cursor,
                   updates, timers>>

\* ------------------------------------------------- the processed-set store

\* saveProcessedProblems past its awaits: the data file is read, its
\* processedProblems key is replaced by the in-memory set as it is now, and
\* the file is written back.
SaveProcessedProblems ==
    /\ savePending > 0
    /\ savePending' = savePending - 1
    /\ data' = ProcessedKey(processedProblems)
    /\ UNCHANGED <<settings, processedProblems, loadPending, vaultVars,
                   runVars, sinceClear, apiVars, sideVars>>

\* loadProcessedProblems once its loadData() has resolved: the in-memory set
\* is replaced by the persisted one when the key is present, and cleared and
\* saved when the notes folder does not exist.
LoadProcessedProblems ==
    /\ loadPending
    /\ loadPending' = FALSE
    /\ LET loaded == IF data.hasProcessed THEN data.processedProblems
                     ELSE processedProblems
       IN IF folderExists
          THEN /\ processedProblems' = loaded
               /\ UNCHANGED savePending
          ELSE /\ savePending < MaxPending
               /\ processedProblems' = {}
               /\ savePending' = savePending + 1
    /\ ForgetRun
    /\ UNCHANGED <<settings, data, vaultVars, pc, idx, sinceClear, apiVars, sideVars>>

\* clearProcessedProblems, called by LeetFetchPlugin.clearCache.
ClearProcessedProblems ==
    /\ savePending < MaxPending
    /\ processedProblems' = {}
    /\ savePending' = savePending + 1
    /\ sinceClear' = TRUE
    /\ ForgetRun
    /\ UNCHANGED <<settings, data, loadPending, vaultVars, pc, idx, apiVars, sideVars>>

\* ------------------------------------------------------------- the plugin

\* The settings tab changes fields of the settings object in place and calls
\* saveSettings: saveData(this.settings) writes the whole object, with
\* whatever processedProblems key loadSettings copied into it. The two topic
\* switches stay at their defaults. The client is handed the settings again.
SaveSettings(useBases, createNotes) ==
    /\ settings' = [settings EXCEPT !.useBasesFormat = useBases,
                                    !.createIndividualNotes = createNotes]
    /\ data' = settings.processed
    /\ UpdateSettings(apiSettings)
    /\ UNCHANGED <<processedProblems, loadPending, savePending, vaultVars, runVars,
                   sinceClear, processedQuestionIds, fetch, batchVars, sideVars,
                   lastRequestTime, now,
                   ops, requests>>

\* The settings tab toggles "fetch all on empty" and calls saveSettings.
SaveFetchAllOnEmpty(value) ==
    /\ settings' = [settings EXCEPT !.fetchAllOnEmpty = value]
    /\ data' = settings.processed
    /\ UpdateSettings(apiSettings)
    /\ UNCHANGED <<processedProblems, loadPending, savePending, vaultVars, runVars,
                   sinceClear, processedQuestionIds, fetch, batchVars, sideVars,
                   lastRequestTime, now,
                   ops, requests>>

\* The application restarts (at any point, also in the middle of a run) and
\* onload runs: loadSettings copies the data file over the defaults, a new
\* writer starts with an empty set and an un-awaited loadProcessedProblems,
\* a new API client starts with no processed question id, no cached token
\* and no call in flight.
\* What the old instance had in flight is gone.
Reload ==
    /\ settings' = [settings EXCEPT !.processed = data]
    /\ processedProblems' = {}
    /\ loadPending' = TRUE
    /\ savePending' = 0
    /\ pc' = "idle"
    /\ idx' = 1
    /\ IF pc \in {"notes", "update"} /\ \E p \in Problems : <<p, "created">> \in attempted
       THEN /\ result' = [kind |-> "interrupted", value |-> <<>>, prior |-> "none"]
            /\ newProblems' = <<>>
            /\ attempted' = {}
            /\ UNCHANGED batch
       ELSE IF result.kind = "interrupted"
       THEN UNCHANGED <<batch, newProblems, result, attempted>>
       ELSE /\ result' = NoResult
            /\ batch' = <<>>
            /\ newProblems' = <<>>
            /\ attempted' = {}
    /\ processedQuestionIds' = {}
    /\ fetch' = NoFetch
    /\ recent' = NoRecent
    /\ all' = NoAll
    /\ csrfToken' = Null
    /\ csrfTokenExpiry' = 0
    /\ lastRequestTime' = 0
    /\ ops' = [o \in Ops |-> IdleCall]
    /\ requests' = <<>>
    /\ health' = [NoHealth EXCEPT !.username = health.username]
    /\ integrity' = NoIntegrity
    /\ runs' = [r \in Runs |-> NoRun]
    /\ cursor' = NoCursor
    /\ updates' = NoUpdates
    /\ timers' = [NoTimers EXCEPT !.file = timers.file]
    /\ queue' = NoQueue
    /\ UNCHANGED docs
    /\ UNCHANGED <<data, vaultVars, sinceClear, apiSettings, now>>

Next ==
    \/ \E b \in Batches : UpdateProblemBase(b)
    \/ \E o \in NoteOutcomes : CreateIndividualNotesStep(o)
    \/ \E f \in SUBSET Problems : BatchUpdateAndMark(f)
    \/ \E o \in NoteOutcomes : SyncRecreateNotesStep(o)
    \/ \E p \in Problems, o \in NoteOutcomes : CreateProblemNoteFromCursor(p, o)
    \/ SaveProcessedProblems
    \/ LoadProcessedProblems
    \/ ClearProcessedProblems
    \/ \E u, c \in BOOLEAN : SaveSettings(u, c)
    \/ Reload

Spec == Init /\ [][Next]_vars

\* The sessions in which the clear-cache command is never used.
NextNoClear ==
    \/ \E b \in Batches : UpdateProblemBase(b)
    \/ \E o \in NoteOutcomes : CreateIndividualNotesStep(o)
    \/ \E f \in SUBSET Problems : BatchUpdateAndMark(f)
    \/ \E o \in NoteOutcomes : SyncRecreateNotesStep(o)
    \/ \E p \in Problems, o \in NoteOutcomes : CreateProblemNoteFromCursor(p, o)
    \/ SaveProcessedProblems
    \/ LoadProcessedProblems
    \/ \E u, c \in BOOLEAN : SaveSettings(u, c)
    \/ Reload

SpecNoClear == Init /\ [][NextNoClear]_vars

\* The sessions of one plugin instance in which every sync goes through its
\* fetch and the settings tab is used for "fetch all on empty" alone.
NextSync ==
    \/ \E l \in SubmissionLists, f \in SUBSET (1..MaxSubmissions) : SyncProblems(l, f)
    \/ \E l \in SubmissionLists, f \in SUBSET (1..MaxSubmissions) : SyncAllProblems(l, f)
    \/ \E o \in NoteOutcomes : CreateIndividualNotesStep(o)
    \/ \E f \in SUBSET Problems : BatchUpdateAndMark(f)
    \/ \E o \in NoteOutcomes : SyncRecreateNotesStep(o)
    \/ SaveProcessedProblems
    \/ LoadProcessedProblems
    \/ ClearProcessedProblems
    \/ \E v \in BOOLEAN : SaveFetchAllOnEmpty(v)

SpecSync == Init /\ [][NextSync]_vars

\* One call of the client from its start to its end, with whatever the
\* remote endpoint answers, while the settings tab is used and time passes.
NextApi ==
    \/ MakeGraphQLRequest(1)
    \/ \E f \in FetchedTokens : SendRequest(1, f)
    \/ \E r \in Responses, j \in Jitters : Respond(1, r, j)
    \/ BackoffWake(1)
    \/ \E d \in NextWake \cup {CSRF_TTL} : Elapse(d)
    \/ \E raw \in RawSettings : SaveClientSettings(raw)

SpecApi == Init /\ [][NextApi]_vars

\* One call of the client under the default settings, with whatever the
\* remote endpoint answers.
NextCall ==
    \/ MakeGraphQLRequest(1)
    \/ \E f \in FetchedTokens : SendRequest(1, f)
    \/ \E r \in Responses, j \in Jitters : Respond(1, r, j)
    \/ BackoffWake(1)
    \/ \E d \in NextWake : Elapse(d)

SpecCall == Init /\ [][NextCall]_vars

\* What the remote endpoint answers where only the timing is looked at: the
\* question, or a server error to the first attempt of a call.
Answer == [kind |-> "http", status |-> 200, text |-> "{data: {question}}"]

ServerError == [kind |-> "http", status |-> 500, text |-> "Forbidden"]

\* How far the clock is moved there: to the next timer, to one step before
\* it, and step by step for a while after the client was constructed.
RateSteps ==
    NextWake \cup {d - TickStep : d \in NextWake}
        \cup (IF now < StartTime + TickHorizon THEN {TickStep} ELSE {})

\* The operations of one client with the default settings, timed against
\* each other.
NextRate ==
    \/ \E o \in Ops : MakeGraphQLRequest(o)
    \/ \E o \in Ops : RateLimitWake(o)
    \/ \E o \in Ops : SendRequest(o, Null)
    \/ \E o \in Ops : Respond(o, Answer, 0)
    \/ \E o \in Ops, j \in Jitters : ops[o].attempt = 0 /\ Respond(o, ServerError, j)
    \/ \E o \in Ops : BackoffWake(o)
    \/ \E d \in RateSteps : Elapse(d)

SpecRate == Init /\ [][NextRate]_vars

\* A remote recent list that holds every problem.
RecentListOfAll == [p \in Problems |-> p]

\* The sessions of one plugin instance whose syncs are all syncProblems.
NextResync ==
    \/ \E l \in SubmissionLists, f \in SUBSET (1..MaxSubmissions) : SyncProblems(l, f)
    \/ \E o \in NoteOutcomes : CreateIndividualNotesStep(o)
    \/ \E f \in SUBSET Problems : BatchUpdateAndMark(f)
    \/ \E o \in NoteOutcomes : SyncRecreateNotesStep(o)
    \/ SaveProcessedProblems
    \/ LoadProcessedProblems
    \/ \E v \in BOOLEAN : SaveFetchAllOnEmpty(v)

\* Those sessions, in which again and again syncProblems runs with every
\* problem in the remote recent list and no detail fetch failing, the vault
\* accepts a note, and the steps of a run, the startup load and the pending
\* saves complete.
SpecResync ==
    /\ Init /\ [][NextResync]_vars
    /\ SF_vars(SyncProblems(RecentListOfAll, {}))
    /\ SF_vars(CreateIndividualNotesStep("ok"))
    /\ SF_vars(BatchUpdateAndMark({}))
    /\ SF_vars(SyncRecreateNotesStep("ok"))
    /\ WF_vars(LoadProcessedProblems)
    /\ WF_vars(SaveProcessedProblems)

\* The batch fetches of one client, one at a time.
NextFetch ==
    \/ \E fp \in BOOLEAN, l \in SubmissionLists, f \in SUBSET (1..MaxSubmissions) :
          FetchRecent(fp, l, f)
    \/ \E t \in SessionTokens, l \in SubmissionLists, f \in SUBSET (1..MaxSubmissions) :
          FetchAll(t, l, f)
    \/ \E page \in Pages, f \in SUBSET (1..MaxSubmissions) : FetchAllPage(page, f)
    \/ FetchAllNoSubmissions
    \/ \E e \in PageErrors : FetchAllPageFails(e)

SpecFetch == Init /\ [][NextFetch]_vars

\* The same, with a remote service that answers each request of the loop.
SpecFetchFair == SpecFetch /\ WF_vars(FetchAllStep)

\* The health checks of one client, between changes of the username.
NextHealth ==
    \/ \E u \in Usernames : SaveUsername(u)
    \/ HealthCheck
    \/ \E o \in ProfileOutcomes : HealthCheckEnds(o)

SpecHealth == Init /\ [][NextHealth]_vars

\* The validations of the notes folder, between changes of its files.
NextIntegrity ==
    \/ \E f \in Files, doc \in Documents \cup {NoFile} : ChangeDocument(f, doc)
    \/ ValidateBaseIntegrity
    \/ ValidateChunk

SpecIntegrity == Init /\ [][NextIntegrity]_vars

\* The sync runs of the two triggers of one plugin instance.
NextOverlap ==
    \/ \E r \in Runs, b \in Batches : RunStarts(r, b)
    \/ \E r \in Runs : RunChecksNote(r)
    \/ \E r \in Runs, o \in CreateOutcomes : RunCreateSettles(r, o)
    \/ \E r \in Runs : RunUpdatesAndMarks(r)

SpecOverlap == Init /\ [][NextOverlap]_vars

\* The page requests of the paginated fetchAllSubmissions calls of one client.
NextCursor ==
    \/ CursorStarts
    \/ \E count, new \in 0..MaxSubmissions, hasNext \in BOOLEAN, lastKey \in LastKeys :
          CursorPage(count, new, hasNext, lastKey)
    \/ CursorNoSubmissions
    \/ CursorPageFails

SpecCursor == Init /\ [][NextCursor]_vars

\* The calls of batchUpdateProblems, one at a time.
NextBatch ==
    \/ \E n \in 0..MaxUpdates : BatchUpdateStarts(n)
    \/ \E k \in 1..MaxUpdates, o \in UpdateOutcomes : UpdateSettles(k, o)
    \/ BatchSettles
    \/ NextBatchStarts

SpecBatch == Init /\ [][NextBatch]_vars

\* The plugin loaded and unloaded, and its auto-sync settings changed.
NextAutoSync ==
    \/ Onload
    \/ \E a \in BOOLEAN, m \in SyncIntervals : ChangeAutoSync(a, m)
    \/ \E o \in SaveDataOutcomes : SaveSettingsEnds(o)
    \/ Onunload

SpecAutoSync == Init /\ [][NextAutoSync]_vars

\* The file events BaseManager listens to and the runs of its queue. A run
\* in process goes on to its end; no file event has to arrive.
NextQueue ==
    \/ \E f \in Paths : QueueUpdate(f)
    \/ BatchProcessed
    \/ ProcessUpdateQueueEnds

SpecQueue ==
    /\ Init
    /\ [][NextQueue]_vars
    /\ WF_vars(BatchProcessed)
    /\ WF_vars(ProcessUpdateQueueEnds)

\* ------------------------------------------------------------- properties

\* The records of b are unknown to the store and to the in-memory set.
Unknown(b) ==
    \A i \in DOMAIN b :
        Id(b[i]) \notin GetExistingProblemIds /\ Slug(b[i]) \notin processedProblems

\* In the three formulas below a step is a call of updateProblemBase when it
\* is an UpdateProblemBase step for the batch it leaves in batch.

\* C1: updateProblemBase classifies a record of its batch as new exactly when
\* its id is absent from the existing-id snapshot taken at the start of the
\* call and its slug is absent from the in-memory processed set; the new
\* records keep the order of the batch.
C1_NewIffAbsentFromBoth ==
    [][UpdateProblemBase(batch') =>
          /\ \A i \in DOMAIN batch' :
                (batch'[i] \in Range(newProblems')) <=>
                    (Id(batch'[i]) \notin GetExistingProblemIds
                        /\ Slug(batch'[i]) \notin processedProblems)
          /\ Range(newProblems') \subseteq Range(batch')
          /\ \A i, j \in DOMAIN newProblems' :
                i < j => \E k, l \in DOMAIN batch' :
                            /\ k < l
                            /\ batch'[k] = newProblems'[i]
                            /\ batch'[l] = newProblems'[j]
      ]_vars

\* The store holds id 1, the set is empty, and the call given
\* [{1, two-sum}, {2, three-sum}] has just kept the id-2 record alone.
C1_Witness ==
    /\ pc \in {"notes", "update"}
    /\ attempted = {}
    /\ batch = <<1, 2>>
    /\ newProblems = <<2>>
    /\ Id(1) \in GetExistingProblemIds
    /\ processedProblems = {}

C3_AtMostOneNotePerProblem == \A p \in Problems : Len(notes[p]) <= 1

\* The retry of an interrupted run has ended, and a record of its batch has
\* its one document.
C3_Witness ==
    /\ result.prior = "interrupted"
    /\ result.kind \in {"returned", "empty"}
    /\ \E p \in Range(batch) : Len(notes[p]) = 1


\* C4: at the step in which updateProblemBase returns after materializing,
\* the slug of every returned record is in the in-memory set and in the
\* persisted set.
C4_ReturnedAreMarkedAndPersisted ==
    [][(pc = "update" /\ result'.kind = "returned") =>
            \A p \in Range(result'.value) :
                /\ Slug(p) \in processedProblems'
                /\ Slug(p) \in PersistedSet(data')
      ]_vars

\* C5, for the calls made with the Bases format enabled: a call that has
\* ended, whatever happened to its writes, has returned its filter result.
C5_ReturnsTheNewSubset ==
    (pc = "idle" /\ result.kind \in {"empty", "returned", "raised"}) =>
        (result.kind # "raised" /\ result.value = newProblems)

\* C6: once the materialization of a call is over, with or without failures,
\* every new record has had its materialization attempted.
C6_EveryNewRecordAttempted ==
    result.kind \in {"returned", "raised"} =>
        \A p \in Range(newProblems) :
            \E x \in attempted : x[1] = p

\* A createProblemNote call for problem p takes place in this step.
CallsCreateProblemNote(p) ==
    \/ /\ pc \in {"notes", "renotes"}
       /\ newProblems[idx] = p
       /\ \E o \in NoteOutcomes :
            CreateIndividualNotesStep(o) \/ SyncRecreateNotesStep(o)
    \/ \E o \in NoteOutcomes : CreateProblemNoteFromCursor(p, o)

\* C7: createProblemNote for a problem whose document exists raises nothing
\* (the loop it runs in goes on), creates nothing, and leaves the document
\* and the topic pages as they were.
C7_ExistingNoteIsLeftAlone ==
    [][\A p \in Problems : (NoteExists(p) /\ CallsCreateProblemNote(p)) =>
            /\ notes' = notes
            /\ topicLinks' = topicLinks
            /\ result'.kind # "raised"
            /\ (pc \in {"notes", "renotes"} /\ idx < Len(newProblems)) =>
                    (pc' = pc /\ idx' = idx + 1)
      ]_vars

\* A run has called createProblemNote for a record whose document existed,
\* and the problem has its one document.
C7_Witness ==
    \E p \in Problems :
        /\ <<p, "existed">> \in attempted
        /\ Len(notes[p]) = 1
        /\ result.kind # "raised"

\* C8: in the sessions without an explicit clear, no step takes a slug out
\* of the persisted set.
C8_PersistedSetOnlyGrows ==
    [][PersistedSet(data) \subseteq PersistedSet(data')]_vars

\* C9, for the create-note-from-current-line entry point: in the sessions
\* without an explicit clear, when the command has created the document of a
\* problem while no sync run and no load or save of the set was under way,
\* the slug of the problem is in the set (in memory or persisted).
C9_SetCoversCursorCreatedNote ==
    [][\A p \in Problems :
          (/\ pc = "idle" /\ ~loadPending /\ savePending = 0
           /\ ~NoteExists(p)
           /\ \E o \in NoteOutcomes : CreateProblemNoteFromCursor(p, o)
           /\ Len(notes'[p]) = 1) =>
              (Slug(p) \in processedProblems' \/ Slug(p) \in PersistedSet(data'))
      ]_vars

\* C10: once the clear has emptied the set in memory and in the data file,
\* and no reconcile has marked since, a settings save leaves the persisted
\* set empty.
C10_StaysEmptyAcrossSettingsSave ==
    [][(/\ sinceClear
        /\ savePending = 0
        /\ ~loadPending
        /\ processedProblems = {}
        /\ PersistedSet(data) = {}
        /\ \E u, c \in BOOLEAN : SaveSettings(u, c)) =>
            PersistedSet(data') = {}
      ]_vars

\* C11: when the clear-cache action has emptied the set and nothing has been
\* marked since, the next sync, its detail-fetches all succeeding, hands to
\* updateProblemBase, and updateProblemBase classifies as new, every problem
\* of the remote recent list whose id the store does not contain.
C11_NextSyncReprocessesAll ==
    [][\A l \in Batches :
          (/\ sinceClear
           /\ ~loadPending
           /\ processedProblems = {}
           /\ SyncProblems(l, {})) =>
              \A p \in Range(l) :
                  Id(p) \notin GetExistingProblemIds =>
                      (p \in Range(batch') /\ p \in Range(newProblems'))
      ]_vars

\* C12: a call that has ended after failing with a retryable error at every
\* attempt has made exactly maxRetries + 1 attempts, maxRetries being the
\* configured value it started with, and has raised one aggregate error
\* (UNKNOWN, not retryable) that names the error of its last attempt; and no
\* call makes more than maxRetries + 1 attempts.
C12_RetryBudgetExhaustion ==
    \A o \in Ops :
        /\ ops[o].pc \notin {"idle", "rate_sleep"} =>
               ops[o].attempts <= ops[o].maxRetries + 1
        /\ (ops[o].pc = "done" /\ ops[o].thrown.retryable) =>
               /\ ops[o].attempts = ops[o].maxRetries + 1
               /\ ops[o].error.message = "Max retries exceeded"
               /\ ops[o].error.type = "UNKNOWN"
               /\ ~ops[o].error.retryable
               /\ ops[o].error.last = ops[o].thrown.message

C12_Witness ==
    /\ ops[1].pc = "done"
    /\ ops[1].thrown.retryable
    /\ ops[1].maxRetries = MaxMaxRetries
    /\ ops[1].attempts = MaxMaxRetries + 1

\* C13: the delays one call has slept between its attempts are strictly
\* increasing, whatever the jitter.
C13_DelaysStrictlyIncreasing ==
    \A o \in Ops :
        \A i \in 1..(Len(ops[o].delays) - 1) :
            ops[o].delays[i] < ops[o].delays[i + 1]

C13_Witness ==
    /\ Len(ops[1].delays) = MaxMaxRetries
    /\ ops[1].delays[1] = BaseDelay + 999
    /\ ops[1].delays[2] = 2 * BaseDelay

\* C14: a call whose first attempt failed with AUTH or NOT_FOUND has ended
\* there, with one attempt, no backoff sleep, and that error, not retryable,
\* raised to the caller; and no attempt ever follows an AUTH or NOT_FOUND
\* failure.
C14_NonRetryableShortCircuit ==
    \A o \in Ops :
        /\ (ops[o].attempts = 1 /\ ops[o].thrown.type \in {"AUTH", "NOT_FOUND"}) =>
               /\ ops[o].pc = "done"
               /\ ops[o].delays = <<>>
               /\ ops[o].error = ops[o].thrown
               /\ ~ops[o].error.retryable
        /\ ops[o].after \notin {"AUTH", "NOT_FOUND"}

C14_Witness ==
    /\ ops[1].pc = "done"
    /\ ops[1].attempts = 1
    /\ ops[1].maxRetries = MaxMaxRetries
    /\ ops[1].error.type = "AUTH"

\* The body of a response hints at CSRF: it mentions csrf in any case.
CsrfHint(text) == text = "CSRF verification failed"

\* The taxonomy of failures as kind and retryable flag; "none" for a
\* response that is no failure.
Taxonomy(r) ==
    CASE r.kind = "throw" -> <<"NETWORK", TRUE>>
      [] r.kind = "http" /\ r.status = 401 -> <<"AUTH", FALSE>>
      [] r.kind = "http" /\ r.status = 403 /\ ~CsrfHint(r.text) -> <<"AUTH", FALSE>>
      [] r.kind = "http" /\ r.status = 403 /\ CsrfHint(r.text) -> <<"CSRF", TRUE>>
      [] r.kind = "http" /\ r.status = 429 -> <<"RATE_LIMIT", TRUE>>
      [] r.kind = "http" /\ r.status \in 500..599 -> <<"NETWORK", TRUE>>
      [] r.kind = "http" /\ r.status \in (400..499) \ {401, 403, 429} ->
             <<"NETWORK", FALSE>>
      [] OTHER ->
             IF r.text \in {"CSRF verification failed", "Forbidden"}
             THEN <<"NETWORK", TRUE>>
             ELSE IF r.text \in {"{errors: [User not found]}", "{data: {question: null}}"}
             THEN <<"NOT_FOUND", FALSE>>
             ELSE IF r.text = "{errors: [Bad request]}"
             THEN <<"UNKNOWN", FALSE>>
             ELSE <<"none", FALSE>>

\* C15: whatever the remote endpoint answers to an attempt, the error thrown
\* for it has the kind and the retryable flag the taxonomy gives that answer.
C15_ClassifiedPerTaxonomy ==
    [][\A o \in Ops :
          (ops[o].pc = "waiting" /\ ops'[o].pc # "waiting") =>
              \A r \in Responses, j \in Jitters :
                  Respond(o, r, j) =>
                      <<ops'[o].thrown.type, ops'[o].thrown.retryable>> = Taxonomy(r)
      ]_vars

C15_Witness ==
    /\ ops[1].pc = "backoff"
    /\ ops[1].thrown.type = "CSRF"
    /\ ops[1].thrown.retryable

\* C16: the attempt that follows a CSRF-classified failure of the same call
\* sends a token acquired anew from the public page, or at least another
\* token than the failed attempt sent.
C16_RetryAfterCsrfFailureReacquires ==
    [][\A o \in Ops, f \in FetchedTokens :
          (ops[o].thrown.type = "CSRF" /\ SendRequest(o, f)) =>
              (ops'[o].source = "fetch" \/ ops'[o].token # ops[o].token)
      ]_vars

\* A token string is blank: empty or white space only.
Blank(s) == s \in {"", " "}

\* C17: getCSRFToken returns the user's token whenever that is not blank;
\* otherwise the cached token exactly when there is one and the time is
\* before its expiry; otherwise what the public page gives, which is cached,
\* to expire 30 minutes later, only when a token was found.
C17_TokenAcquisitionOrder ==
    [][\A o \in Ops, f \in FetchedTokens :
          SendRequest(o, f) =>
              IF ~Blank(apiSettings.csrfToken)
              THEN /\ ops'[o].source = "user"
                   /\ ops'[o].token = "user-token"
                   /\ UNCHANGED <<csrfToken, csrfTokenExpiry>>
              ELSE /\ ops'[o].source = "cache" <=>
                          (csrfToken # Null /\ now < csrfTokenExpiry)
                   /\ ops'[o].source = "cache" =>
                          /\ ops'[o].token = csrfToken
                          /\ UNCHANGED <<csrfToken, csrfTokenExpiry>>
                   /\ ops'[o].source # "cache" =>
                          /\ ops'[o].source = "fetch"
                          /\ ops'[o].token = f
                          /\ IF f # Null
                             THEN /\ csrfToken' = f
                                  /\ csrfTokenExpiry' = now + 30 * 60 * 1000
                             ELSE UNCHANGED <<csrfToken, csrfTokenExpiry>>
      ]_vars

C17_Witness ==
    /\ ops[1].pc = "waiting"
    /\ ops[1].source = "cache"
    /\ ops[1].token = "page-token"
    /\ Blank(apiSettings.csrfToken)

\* C18: the two latest requests of the client went out at least
\* MIN_REQUEST_INTERVAL apart.
C18_RequestsSpaced ==
    Len(requests) = 2 => requests[2] - requests[1] >= MIN_REQUEST_INTERVAL

\* C19: no request has been waiting for its response for longer than the
\* configured request timeout.
C19_RequestEndsWithinTimeout ==
    \A o \in Ops :
        ops[o].pc = "waiting" => now - ops[o].sentAt <= apiSettings.requestTimeout

\* C20: the latest fetch of recent submissions has raised exactly when it
\* made detail-fetches and every one of them failed.
C20_RaisesIffEveryDetailFetchFailed ==
    fetch.kind # "none" => ((fetch.kind = "raised") <=> fetch.allFailed)

\* C21: a fetchRecentSubmissions call with filterProcessed = true returns no
\* record whose id was in processedQuestionIds when the call started, and in
\* either mode the array it returns holds no two records with the same slug.
C21_NoSeenAndNoDuplicate ==
    recent.kind = "returned" =>
        /\ recent.filterProcessed =>
              \A i \in DOMAIN recent.problems :
                  Id(recent.problems[i]) \notin recent.seenAtStart
        /\ \A i, j \in DOMAIN recent.problems :
              Slug(recent.problems[i]) = Slug(recent.problems[j]) => i = j

\* A filtering call returned records from a list that also held a problem
\* seen before the call.
C21_Witness ==
    /\ recent.kind = "returned"
    /\ recent.filterProcessed
    /\ \E i \in DOMAIN recent.list : Id(recent.list[i]) \in recent.seenAtStart
    /\ recent.problems # <<>>

\* The records of ps are in non-increasing order of timestamp.
MostRecentFirst(ps) ==
    \A i, j \in DOMAIN ps : i < j => Timestamp(ps[i]) >= Timestamp(ps[j])

\* C22: the array fetchRecentSubmissions returns and the array
\* fetchAllSubmissions returns are in non-increasing order of timestamp,
\* whatever the order in which the remote service delivered the submissions.
C22_ReturnedMostRecentFirst ==
    /\ recent.kind = "returned" => MostRecentFirst(recent.problems)
    /\ all.pc = "returned" => MostRecentFirst(all.result)

\* The paginated fetchAllSubmissions returned two records that the remote
\* service had delivered oldest first.
C22_Witness ==
    /\ all.pc = "returned"
    /\ Len(all.result) >= 2
    /\ ~MostRecentFirst(all.problems)

\* The problems with an accepted submission on the pages delivered.
AcceptedServed == {s.problem : s \in {t \in all.served : IsAccepted(t)}}

C24_DetailsOnlyForAccepted ==
    /\ \A s \in all.detailed : IsAccepted(s)
    /\ Range(all.problems) \subseteq AcceptedServed
    /\ Range(all.result) \subseteq AcceptedServed

\* The call returned a record, and its pages held a submission of another
\* problem that was not accepted.
C24_Witness ==
    /\ all.pc = "returned"
    /\ all.result # <<>>
    /\ \E s \in all.served : ~IsAccepted(s) /\ s.problem \notin Range(all.result)

\* C25: the paginated fetchAllSubmissions raises exactly when the latest
\* maxConsecutiveFailures page requests have all failed, with an error that
\* is not retryable and is built from the last failure; while the loop runs,
\* consecutiveFailures is the number of page requests that have failed since
\* the latest successful one.
C25_AbortsAfterConsecutiveFailures ==
    /\ all.pc = "raised" <=> all.streak = maxConsecutiveFailures
    /\ all.pc = "raised" =>
          /\ all.error.type = "UNKNOWN"
          /\ ~all.error.retryable
          /\ all.error.last = all.lastError.message
    /\ all.pc = "running" => all.consecutiveFailures = all.streak

\* The loop is running after maxConsecutiveFailures failed page requests
\* that a successful one separated.
C25_Witness ==
    /\ all.pc = "running"
    /\ all.pageFailures = maxConsecutiveFailures
    /\ all.streak < maxConsecutiveFailures

\* C26: the number of records the paginated fetchAllSubmissions has
\* collected, and the number it returns, never exceeds maxProblems.
C26_NeverAboveCeiling ==
    /\ all.totalProcessed <= maxProblems
    /\ Len(all.problems) <= maxProblems
    /\ Len(all.result) <= maxProblems

\* C27: with a remote service that answers each request, a paginated
\* fetchAllSubmissions that is running comes to return or raise.
C27_FetchAllTerminates == (all.pc = "running") ~> (all.pc # "running")

\* C28: a batch fetch that made detail fetches, each of which failed, does
\* not return: fetchRecentSubmissions raises, and so does the paginated
\* fetchAllSubmissions.
C28_TotalFailureRaises ==
    /\ (recent.details # {} /\ recent.failedProblems = recent.details) =>
           recent.kind = "raised"
    /\ (all.detailed # {} /\ all.problems = <<>>) => all.pc # "returned"

\* C29: after a page request of fetchAllSubmissions has failed with an error
\* that is not retryable, the call has raised that error, and no failure
\* before it was counted.
C29_NonRetryablePageErrorPropagates ==
    (all.streak > 0 /\ ~all.lastError.retryable) =>
        /\ all.pc = "raised"
        /\ all.error = all.lastError
        /\ all.streak = 1

\* C30: a problem of the remote recent list that has no note and is not in
\* processedProblems comes to have its note through a later sync of the same
\* client, whatever the syncs before did.
C30_EventuallyMaterialized ==
    \A p \in Problems :
        (~NoteExists(p) /\ Slug(p) \notin processedProblems) ~> NoteExists(p)

\* C31: healthCheck never raises; with no username it returns healthy = false
\* without calling makeGraphQLRequest; it returns healthy = true only when
\* the profile request came back with the matched user.
C31_HealthCheckReturnsAValue ==
    /\ health.pc # "raised"
    /\ health.pc = "returned" =>
          /\ ~HasUsername(health.calledWith) => ~health.sent /\ ~health.healthy
          /\ health.healthy =>
                health.sent /\ health.outcome.kind = "matchedUser"
          /\ health.message # "none"

\* A health check with a username ended on an error that is not a
\* LeetCodeAPIError.
C31_Witness ==
    /\ health.pc = "returned"
    /\ health.sent
    /\ health.outcome.kind = "TypeError"
    /\ ~health.healthy

\* The files whose metadata lacks a required field, or is missing, or cannot
\* be read, in the cache as the validation found it.
Offending ==
    {f \in Files :
        /\ integrity.before[f].kind # "absent"
        /\ ~(/\ integrity.before[f].kind = "frontmatter"
             /\ \A field \in RequiredFields : field \in integrity.before[f].fields)}

\* C32: validateBaseIntegrity never raises and changes no document; what it
\* returns has valid = true exactly when every file of the folder has
\* metadata with problem_id, title, difficulty and status, and issues holds
\* one entry for each other file and for no more.
C32_ValidIffEveryDocumentComplete ==
    /\ [](integrity.pc # "raised")
    /\ [][integrity' # integrity => docs' = docs]_vars
    /\ [](integrity.pc = "returned" =>
            /\ integrity.valid <=> Offending = {}
            /\ {integrity.issues[k].file : k \in DOMAIN integrity.issues} = Offending
            /\ Len(integrity.issues) = Cardinality(Offending))

\* A validation returned one issue for a folder of two files: one complete,
\* one with a frontmatter that lacks a single field.
C32_Witness ==
    /\ integrity.pc = "returned"
    /\ ~integrity.valid
    /\ Len(integrity.issues) = 1
    /\ Len(integrity.files) = 2
    /\ \E f \in Files :
          /\ integrity.before[f].kind = "frontmatter"
          /\ Cardinality(integrity.before[f].fields) = Cardinality(RequiredFields) - 1

\* C33: when two sync runs overlap in time, no record is materialized by
\* both (vault.create or updateProblemInBase called for it by each), and no
\* run fails on a create because the document already exists.
C33_OverlappingRunsShareNoRecord ==
    \A r, o \in Runs :
        (r # o /\ (runs[r].overlapped \/ runs[o].overlapped)) =>
            /\ runs[r].attempted \cap runs[o].attempted = {}
            /\ ~runs[r].collided

\* C34: every page request of fetchAllSubmissions carries the lastKey of the
\* latest page fetched (null before the first) and the number of submissions
\* received so far as its offset; a request that follows a failed one
\* carries the same variables; and no request is issued while another waits
\* for its response.
C34_CursorPassedBack ==
    /\ cursor.outstanding <= 1
    /\ cursor.pc = "waiting" =>
          /\ cursor.outstanding = 1
          /\ cursor.sent.lastKey = cursor.gotKey
          /\ cursor.sent.offset = cursor.received
          /\ cursor.prevFailed => cursor.sent = cursor.prevSent

\* A page request is waiting that repeats a failed one, after a page with
\* submissions and a lastKey had been fetched.
C34_Witness ==
    /\ cursor.pc = "waiting"
    /\ cursor.prevFailed
    /\ cursor.sent.offset > 0
    /\ cursor.sent.lastKey # Null

\* The batch of position k.
BatchOf(k) == (k - 1) \div BATCH_SIZE

\* C35: in batchUpdateProblems at most BATCH_SIZE updates are in flight, and
\* no update of a batch has been started while an update of an earlier batch
\* has not settled.
C35_BatchesRunInTurn ==
    /\ Cardinality({k \in DOMAIN updates.promises :
                       updates.promises[k] = "inflight"}) <= BATCH_SIZE
    /\ \A j, k \in DOMAIN updates.promises :
          (BatchOf(j) < BatchOf(k) /\ updates.promises[k] # "waiting") =>
              updates.promises[j] \notin {"waiting", "inflight"}

\* The second batch of a call is in flight after the first, a full one, has
\* settled.
C35_Witness ==
    /\ updates.pc = "batch"
    /\ updates.i = 1 + BATCH_SIZE
    /\ \E k \in DOMAIN updates.promises : updates.promises[k] = "inflight"

\* The records whose metadata update raised an error.
Raised == {k \in DOMAIN updates.ended : updates.ended[k] = "raises"}

\* C36: in the value batchUpdateProblems returns, updated + failed is the
\* number of problems passed and failed is the number of records whose
\* update raised.
C36_CountsAreFaithful ==
    updates.pc = "returned" =>
        /\ updates.updated + updates.failed = updates.n
        /\ updates.failed = Cardinality(Raised)

\* C37: saveProcessedProblems and saveSettings do not lose each other's
\* update: when the data file holds the in-memory set and no
\* saveProcessedProblems is unfinished, a saveSettings leaves the data file
\* holding that set.
C37_SettingsSaveKeepsPersistedSet ==
    [][(/\ savePending = 0
        /\ ~loadPending
        /\ data = ProcessedKey(processedProblems)
        /\ \E u, c \in BOOLEAN : SaveSettings(u, c)) =>
            PersistedSet(data') = processedProblems'
      ]_vars

\* C38: the load the writer's constructor starts keeps the marks made while
\* it was pending: every slug in the in-memory set when the load completes,
\* the notes folder being there, is in it afterwards.
C38_LoadKeepsMarks ==
    [][(loadPending /\ folderExists /\ LoadProcessedProblems) =>
           processedProblems \subseteq processedProblems'
      ]_vars

\* C39: once onload, the saveSettings calls and onunload have run to their
\* ends, at most one auto-sync interval timer is active, and none is active
\* when autoSync is off or the plugin is unloaded.
C39_AtMostOneTimerAndNoneWhenOff ==
    timers.saving = <<>> =>
        /\ Cardinality(timers.active) <= 1
        /\ (~timers.settings.autoSync \/ ~timers.loaded) => timers.active = {}

\* C40: every file path in BaseManager's update queue is eventually in the
\* array passed to batchProcessFiles, whether or not a further file event
\* arrives.
C40_QueuedPathIsProcessed ==
    \A f \in Paths :
        (\E k \in DOMAIN queue.updateQueue : queue.updateQueue[k] = f) ~>
            (\E k \in DOMAIN queue.updates : queue.updates[k] = f)

====
